---- MODULE Spec2Model ----
(***************************************************************************)
(* Verification model of the JDC dashboard's client-side coordination      *)
(* logic: the useGeoCoding hook with its Firestore geocode cache           *)
(* (fetchGeocode / storeGeocode) and the Dashboard data-loading effect.    *)
(*                                                                         *)
(* Granularity: one action is one task of the JavaScript event loop (a     *)
(* React commit with its effects, or the arrival of one network answer)    *)
(* together with the promise continuations (microtasks) that the task      *)
(* makes runnable.  Strings are sequences of one-character strings, so     *)
(* that normalizeAddress can be computed as the code computes it.          *)
(***************************************************************************)
EXTENDS Integers, Sequences, FiniteSets, Bags, TLC

VARIABLES
    mounted,         \* the component using useGeoCoding is mounted
    addresses,       \* the addresses prop seen by the latest effect run
    coordinatesMap,  \* useState: normalized address -> Coordinates
    isLoading,       \* useState: boolean
    error,           \* useState: null (<<>>) or the messages joined by " | "
    processingRef,   \* useRef: set of normalized addresses being processed
    batches,         \* the geocodeBatch runs that started lookups, oldest first
    cache,           \* Firestore collection "geocodes": key -> document
    pendingStores,   \* bag of the setDoc calls of storeGeocode not yet settled
    now,             \* the day new Date() / serverTimestamp() reports
    thrown,          \* the places of the hook where a TypeError was thrown
    user,            \* Dashboard: outlet-context user (NoUser or a uid)
    fetchTrigger,    \* Dashboard: useState fetchTrigger
    seenTrigger,     \* Dashboard: [user, fetchTrigger] the data effect last ran for
    dash,            \* Dashboard: the displayed state (counts, lists, flags)
    loads,           \* Dashboard: the loadDashboardData runs that fetch, oldest first
    tickets,         \* Firestore: sector collection -> its documents, latest date first
    sdk,             \* the last call of a ticket reader, with what it returned
    allShipments,    \* EnvoisCtn: useState allShipments
    selectedSector,  \* EnvoisCtn: useState selectedSector ('' means every sector)
    searchTerm,      \* EnvoisCtn: useState searchTerm
    typed,           \* an address string handed to normalizeAddress
    normKey,         \* normalizeAddress(typed), once computed
    normAgain,       \* normalizeAddress(normKey), once computed
    firebaseUser,    \* Firebase Auth: the signed-in user (NoUser: nobody)
    appUser,         \* App: useState user (NoUser for null)
    appProfile,      \* App: useState profile (NoProfile for null)
    loadingAuth,     \* App: useState loadingAuth
    profileFetches,  \* App: the listener runs awaiting getUserProfile, oldest first
    usersColl,       \* Firestore collection "users": uid -> document data
    admin,           \* AdminPanel: its useState values, and whether it is mounted
    adminCalls,      \* AdminPanel: the SDK calls it awaits, oldest first
    saves            \* AdminPanel: how many writes handleSaveUser has started

geoVars  == <<mounted, addresses, coordinatesMap, isLoading, error,
              processingRef, batches, cache, pendingStores, now, thrown>>
dashVars == <<user, fetchTrigger, seenTrigger, dash, loads>>
sdkVars  == <<tickets, sdk>>
envoisVars == <<allShipments, selectedSector, searchTerm>>
normVars == <<typed, normKey, normAgain>>
authVars == <<firebaseUser, appUser, appProfile, loadingAuth, profileFetches>>
adminVars == <<usersColl, admin, adminCalls, saves>>
appVars  == <<normVars, authVars, adminVars>>
vars     == <<mounted, addresses, coordinatesMap, isLoading, error,
              processingRef, batches, cache, pendingStores, now, thrown,
              user, fetchTrigger, seenTrigger, dash, loads,
              tickets, sdk, allShipments, selectedSector, searchTerm,
              typed, normKey, normAgain,
              firebaseUser, appUser, appProfile, loadingAuth, profileFetches,
              usersColl, admin, adminCalls, saves>>

---------------------------------------------------------------------------
(* Bounds of the model *)

MaxBatches == 2   \* geocodeBatch runs that start at least one lookup
MaxTicks   == 1   \* days that pass during a run
MaxLoads   == 3   \* loadDashboardData runs on the Dashboard
MaxLen     == 3   \* characters of an address string given to normalizeAddress
MaxFetches == 3   \* sign-ins the auth listener of App sees
MaxCalls   == 2   \* SDK calls the admin panel awaits at a time
MaxSaves   == 2   \* writes started by handleSaveUser
MaxCount   == 2   \* the largest `count` asked of a ticket reader

---------------------------------------------------------------------------
(* Program constants *)

GEOCODE_CACHE_EXPIRY_DAYS == 30

---------------------------------------------------------------------------
(* Values *)

\* type Coordinates = { lat, lng } | null ; a lookup may also yield undefined
NullCoord == <<>>
Undefined == <<"undefined">>
ApiCoord  == <<48, 2>>     \* response.data.results[0].geometry
OldCoord  == <<47, 1>>     \* coordinates of a document already in the cache

EmptyMap == [k \in {} |-> NullCoord]
MapSet(m, key, v) == [k \in (DOMAIN m) \cup {key} |-> IF k = key THEN v ELSE m[k]]

\* JavaScript values of different types, for the hook's return value
JsNull      == [t |-> "null"]
JsNumber(n) == [t |-> "number", v |-> n]
JsBool(b)   == [t |-> "boolean", b |-> b]
JsString(s) == [t |-> "string", s |-> s]

---------------------------------------------------------------------------
(* normalizeAddress: address.trim().toLowerCase().replace(/\s+/g, ' ') *)

IsSpace(c) == c \in {" ", "\t"}

ToLower(c) ==
    CASE c = "A" -> "a" [] c = "B" -> "b" [] c = "D" -> "d" [] c = "I" -> "i"
      [] c = "M" -> "m" [] c = "N" -> "n" [] c = "T" -> "t" [] OTHER -> c

RECURSIVE TrimLeft(_)
TrimLeft(s) == IF s # <<>> /\ IsSpace(Head(s)) THEN TrimLeft(Tail(s)) ELSE s

RECURSIVE TrimRight(_)
TrimRight(s) ==
    IF s # <<>> /\ IsSpace(s[Len(s)]) THEN TrimRight(SubSeq(s, 1, Len(s) - 1)) ELSE s

\* Faulty variant: at most one whitespace character is removed at each end
TrimOnce(s) ==
    LET l == IF s # <<>> /\ IsSpace(Head(s)) THEN Tail(s) ELSE s
    IN IF l # <<>> /\ IsSpace(l[Len(l)]) THEN SubSeq(l, 1, Len(l) - 1) ELSE l

Trim(s) == TrimRight(TrimLeft(s))

LowerCase(s) == [i \in 1..Len(s) |-> ToLower(s[i])]

\* replace(/\s+/g, ' '): every maximal run of whitespace becomes one space
RECURSIVE CollapseSpaces(_)
CollapseSpaces(s) ==
    IF s = <<>> THEN <<>>
    ELSE IF IsSpace(Head(s))
         THEN <<" ">> \o CollapseSpaces(TrimLeft(s))
         ELSE <<Head(s)>> \o CollapseSpaces(Tail(s))

normalizeAddress(address) == CollapseSpaces(LowerCase(Trim(address)))

\* An entry of the addresses list that is null or undefined: not a string,
\* `!addr` is true of it and it has no trim()
NullAddress == <<"null">>

\* `!addr`: the empty string, null and undefined are falsy
Falsy(addr) == addr = <<>> \/ addr = NullAddress

\* addresses.map(normalizeAddress) calls address.trim() on every entry of
\* the list: a TypeError for null or undefined
MapThrows(addrs) == \E i \in 1..Len(addrs) : addrs[i] = NullAddress

\* new Set(addresses.map(normalizeAddress)), when the map does not throw
currentNormalizedAddresses(addrs) == {normalizeAddress(addrs[i]) : i \in 1..Len(addrs)}

---------------------------------------------------------------------------
(* addressesKey = JSON.stringify(addresses.slice().sort()) *)

CharRank(c) ==
    CASE c = "\t" -> 0 [] c = " " -> 1 [] c = "A" -> 2 [] c = "B" -> 3
      [] c = "a" -> 4 [] c = "b" -> 5 [] OTHER -> 6

RECURSIVE StrLess(_, _)
StrLess(s, t) ==
    IF t = <<>> THEN FALSE
    ELSE IF s = <<>> THEN TRUE
    ELSE IF Head(s) # Head(t) THEN CharRank(Head(s)) < CharRank(Head(t))
    ELSE StrLess(Tail(s), Tail(t))

RECURSIVE InsertSorted(_, _)
InsertSorted(x, s) ==
    IF s = <<>> THEN <<x>>
    ELSE IF StrLess(Head(s), x) THEN <<Head(s)>> \o InsertSorted(x, Tail(s))
    ELSE <<x>> \o s

RECURSIVE SortStrings(_)
SortStrings(s) == IF s = <<>> THEN <<>> ELSE InsertSorted(Head(s), SortStrings(Tail(s)))

addressesKey(addrs) == SortStrings(addrs)

---------------------------------------------------------------------------
(* Geocode cache client: fetchGeocode / storeGeocode *)

NoDoc == [exists |-> FALSE]
\* a document written by storeGeocode; `timestamp` is a Firestore Timestamp
CacheDoc(coord, day) ==
    [exists |-> TRUE, latitude |-> coord[1], longitude |-> coord[2],
     timestamp |-> [isTimestamp |-> TRUE, day |-> day]]
\* a document whose `timestamp` field is not a Timestamp instance
UndatedDoc(coord) ==
    [exists |-> TRUE, latitude |-> coord[1], longitude |-> coord[2],
     timestamp |-> [isTimestamp |-> FALSE]]

\* now > timestamp + GEOCODE_CACHE_EXPIRY_DAYS, checked only for a Timestamp
\* Faulty variant: the expiry window is never applied
CacheNeverExpires(data, today) == FALSE

CacheExpired(data, today) ==
    /\ GEOCODE_CACHE_EXPIRY_DAYS > 0
    /\ data.timestamp.isTimestamp
    /\ today > data.timestamp.day + GEOCODE_CACHE_EXPIRY_DAYS

\* What fetchGeocode finds: "nokey" (falsy key, no read), "error" (getDoc
\* threw), "null" (no document, or an expired one), "hit".
CacheOutcome(normalizedAddress, store, today, readOk) ==
    IF normalizedAddress = <<>> THEN "nokey"
    ELSE IF ~readOk THEN "error"
    ELSE IF ~store[normalizedAddress].exists THEN "null"
    ELSE IF CacheExpired(store[normalizedAddress], today) THEN "null"
    ELSE "hit"

\* fetchGeocode's return value: the document on a hit, null otherwise
fetchGeocode(normalizedAddress, store, today, readOk) ==
    IF CacheOutcome(normalizedAddress, store, today, readOk) = "hit"
    THEN store[normalizedAddress]
    ELSE NoDoc

\* storeGeocode: setDoc overwrites the document; a failure is logged and
\* swallowed, a falsy key writes nothing.
storeGeocode(normalizedAddress, coord, store, today, writeOk) ==
    IF normalizedAddress = <<>> \/ ~writeOk THEN store
    ELSE [store EXCEPT ![normalizedAddress] = CacheDoc(coord, today)]

---------------------------------------------------------------------------
(* useGeoCoding: the synchronous part of geocodeBatch *)

\* The hook's React state and ref, as one value
HookState == [map |-> coordinatesMap, loading |-> isLoading, err |-> error,
              proc |-> processingRef, thrown |-> thrown]

\* addresses.forEach(...): addressesToFetch, processingRef and
\* currentProcessing after the entries from position i on are visited.
RECURSIVE Partition(_, _, _, _, _, _)
\* Faulty variant: the partition does not consult processingRef
RECURSIVE PartitionIgnoringInFlight(_, _, _, _, _, _)
PartitionIgnoringInFlight(addrs, i, map, proc, toFetch, cur) ==
    IF i > Len(addrs) THEN [toFetch |-> toFetch, proc |-> proc, cur |-> cur]
    ELSE LET addr == addrs[i]
             normalizedAddr == normalizeAddress(addr)
         IN IF Falsy(addr) THEN PartitionIgnoringInFlight(addrs, i + 1, map, proc, toFetch, cur)
            ELSE IF normalizedAddr \notin DOMAIN map
            THEN PartitionIgnoringInFlight(addrs, i + 1, map, proc \cup {normalizedAddr},
                                           Append(toFetch, addr), cur \cup {normalizedAddr})
            ELSE PartitionIgnoringInFlight(addrs, i + 1, map, proc, toFetch, cur)

Partition(addrs, i, map, proc, toFetch, cur) ==
    IF i > Len(addrs) THEN [toFetch |-> toFetch, proc |-> proc, cur |-> cur]
    ELSE LET addr == addrs[i]
             normalizedAddr == normalizeAddress(addr)
         IN IF Falsy(addr) THEN Partition(addrs, i + 1, map, proc, toFetch, cur)
            ELSE IF normalizedAddr \notin DOMAIN map /\ normalizedAddr \notin proc
            THEN Partition(addrs, i + 1, map, proc \cup {normalizedAddr},
                           Append(toFetch, addr), cur \cup {normalizedAddr})
            ELSE Partition(addrs, i + 1, map, proc, toFetch, cur)

\* A lookup (one promise of addressesToFetch.map) right after it was started:
\* it awaits fetchGeocode, which for a falsy key answers null without a read.
NewLookup(addr) ==
    [key    |-> normalizeAddress(addr),
     \* "cache": awaiting fetchGeocode; "api": awaiting axios; "done"
     phase  |-> IF normalizeAddress(addr) = <<>> THEN "api" ELSE "cache",
     \* what fetchGeocode found: "none" (pending), "hit", "null", "error", "nokey"
     seen   |-> IF normalizeAddress(addr) = <<>> THEN "nokey" ELSE "none",
     \* "none", "called", "ok", "zero", "error", "aborted"
     api    |-> IF normalizeAddress(addr) = <<>> THEN "called" ELSE "none",
     result |-> Undefined] \* the Coordinates of the fulfilled promise

\* geocodeBatch up to its first await: the new hook state and the batch.
\* (apiKey is a non-empty literal, so the `!apiKey` return is never taken.)
\* With nothing new to fetch, setIsLoading(false) is followed by
\* addresses.map(normalizeAddress): if that throws, geocodeBatch rejects
\* there (nobody handles the rejection) and processingRef is not pruned.
StartBatch(hs, addrs) ==
    IF Len(addrs) = 0
    THEN [hs    |-> [map |-> EmptyMap, loading |-> FALSE, err |-> <<>>, proc |-> {},
                     thrown |-> hs.thrown],
          start |-> FALSE, toFetch |-> <<>>, cur |-> {}]
    ELSE LET p == Partition(addrs, 1, hs.map, hs.proc, <<>>, {})
         IN IF Len(p.toFetch) = 0
            THEN [hs    |-> IF MapThrows(addrs)
                            THEN [hs EXCEPT !.loading = FALSE, !.proc = p.proc,
                                            !.thrown = @ \cup {"no new address"}]
                            ELSE [hs EXCEPT !.loading = FALSE,
                                            !.proc = p.proc \cap currentNormalizedAddresses(addrs)],
                  start |-> FALSE, toFetch |-> <<>>, cur |-> {}]
            ELSE [hs    |-> [hs EXCEPT !.loading = TRUE, !.err = <<>>, !.proc = p.proc],
                  start |-> TRUE, toFetch |-> p.toFetch, cur |-> p.cur]

NewBatch(toFetch, cur) ==
    [aborted |-> FALSE,        \* signal.aborted
     \* "running", "applied" (lines 613-641), "skipped" (lines 643-649), "forgotten"
     pc      |-> "running",
     cur     |-> cur,          \* currentProcessing
     lk      |-> [i \in 1..Len(toFetch) |-> NewLookup(toFetch[i])]]

\* What is left of a batch whose closure and promises nothing refers to any
\* more: how it ended.
Ended(pc) == [aborted |-> TRUE, pc |-> pc, cur |-> {}, lk |-> <<>>]

\* The results of an applied batch are forgotten when a later effect runs.
Forget(b) == IF b.pc = "applied" THEN Ended("forgotten") ELSE b

---------------------------------------------------------------------------
(* useGeoCoding: the continuations of one lookup *)

\* After `await fetchGeocode`: a hit resolves the lookup; otherwise an aborted
\* signal throws 'Request aborted' (caught: [key, undefined]) and a live one
\* issues axios.get.
\* Faulty variant: the lookup goes to the API whatever the cache answered
AfterCacheReadIgnoringHit(lk, cachedData, outcome, aborted) ==
    IF aborted
    THEN [lk EXCEPT !.phase = "done", !.seen = outcome, !.result = Undefined]
    ELSE [lk EXCEPT !.phase = "api", !.seen = outcome, !.api = "called"]

AfterCacheRead(lk, cachedData, outcome, aborted) ==
    IF cachedData.exists
    THEN [lk EXCEPT !.phase = "done", !.seen = outcome,
                    !.result = <<cachedData.latitude, cachedData.longitude>>]
    ELSE IF aborted
    THEN [lk EXCEPT !.phase = "done", !.seen = outcome, !.result = Undefined]
    ELSE [lk EXCEPT !.phase = "api", !.seen = outcome, !.api = "called"]

\* The answers of the external geocoding API to a request that was not aborted
ApiAnswers ==
    {[kind |-> "results"], [kind |-> "empty"], [kind |-> "noresponse"],
     [kind |-> "http", status |-> 401]}

\* storeGeocode(normalizedAddr, lat, lng) is called, not awaited, when the
\* API gave a result; it returns at once for a falsy key.
StoreRequests(lk, answer) ==
    IF answer.kind = "results" /\ lk.key # <<>>
    THEN SetToBag({[key |-> lk.key, coord |-> ApiCoord]})
    ELSE EmptyBag

\* Faulty variant: a response without results is handled as a failure
ZeroResultIsFailure(answer) == answer.kind \in {"http", "noresponse", "other", "empty"}

IsFailure(answer) == answer.kind \in {"http", "noresponse", "other"}

\* errorMessage of the catch block (accents dropped)
ErrorMessage(answer) ==
    IF answer.kind = "http"
    THEN IF answer.status = 401 \/ answer.status = 403 THEN "Cle API invalide"
         ELSE IF answer.status = 402 THEN "Quota API depasse"
         ELSE "Erreur API (500): Erreur inconnue"
    ELSE IF answer.kind = "noresponse" THEN "Pas de reponse du serveur"
    ELSE "Erreur de geocodage"

\* setError(prev => prev ? `${prev} | ${errorMessage}` : errorMessage)
AppendError(prev, errorMessage) == Append(prev, errorMessage)

\* After `await axios.get` on a live signal: results -> coordinates (and a
\* fire-and-forget storeGeocode, see StoreRequests); no result -> null;
\* failure -> null.
AfterApi(lk, answer) ==
    IF answer.kind = "results"
    THEN [lk EXCEPT !.phase = "done", !.api = "ok", !.result = ApiCoord]
    ELSE IF answer.kind = "empty"
    THEN [lk EXCEPT !.phase = "done", !.api = "zero", !.result = NullCoord]
    ELSE [lk EXCEPT !.phase = "done", !.api = "error", !.result = NullCoord]

\* abortController.abort() rejects the pending axios call: [key, undefined]
AfterAbort(lk) ==
    IF lk.phase = "api"
    THEN [lk EXCEPT !.phase = "done", !.api = "aborted", !.result = Undefined]
    ELSE lk

---------------------------------------------------------------------------
(* useGeoCoding: after Promise.allSettled *)

AllSettled(b) == \A i \in 1..Len(b.lk) : b.lk[i].phase = "done"

\* results.forEach inside setCoordinatesMap: newMap.set unless undefined
RECURSIVE SetResults(_, _, _)
SetResults(map, lk, i) ==
    IF i > Len(lk) THEN map
    ELSE SetResults(IF lk[i].result # Undefined
                    THEN MapSet(map, lk[i].key, lk[i].result) ELSE map,
                    lk, i + 1)

ResultKeys(b) == {b.lk[i].key : i \in 1..Len(b.lk)}

\* Faulty variant: Promise.all in place of Promise.allSettled with the catch
\* rethrowing; one failed lookup rejects the batch and nothing is written
ApplyBatchAllOrNothing(hs, b, addrs) ==
    IF \E i \in 1..Len(b.lk) : b.lk[i].api = "error"
    THEN hs
    ELSE [hs EXCEPT !.map = SetResults(hs.map, b.lk, 1),
                    !.proc = (hs.proc \ ResultKeys(b)) \cap currentNormalizedAddresses(addrs),
                    !.loading = FALSE]

\* signal not aborted (lines 612-641): the results are written, their keys
\* leave processingRef, and so does every key not in the addresses of this
\* effect run (addrs: a batch that is not aborted belongs to the latest run).
\* The updater of setCoordinatesMap calls addresses.map(normalizeAddress)
\* after results.forEach: if that throws, the keys of the results have left
\* processingRef, no new map is returned, and the render that runs the
\* updater fails (see Rendered).
ApplyBatch(hs, b, addrs) ==
    IF MapThrows(addrs)
    THEN [hs EXCEPT !.proc = hs.proc \ ResultKeys(b),
                    !.thrown = @ \cup {"final clean-up"}]
    ELSE [hs EXCEPT !.map = SetResults(hs.map, b.lk, 1),
                    !.proc = (hs.proc \ ResultKeys(b)) \cap currentNormalizedAddresses(addrs),
                    !.loading = FALSE]

\* signal aborted (lines 642-649): only currentProcessing leaves processingRef
\* Faulty variant: an aborted batch leaves its keys in processingRef
SkipBatchKeepingKeys(hs, b) == hs

SkipBatch(hs, b) == [hs EXCEPT !.proc = hs.proc \ b.cur]

\* The code after `await Promise.allSettled(promises)`, run once every lookup
\* of the batch is settled.
\* Faulty variant: the results are applied without testing signal.aborted
FinishBatchIgnoringAbort(hs, b, addrs) ==
    IF b.pc # "running" \/ ~AllSettled(b) THEN [hs |-> hs, b |-> b]
    ELSE [hs |-> ApplyBatch(hs, b, addrs), b |-> [b EXCEPT !.pc = "applied"]]

FinishBatch(hs, b, addrs) ==
    IF b.pc # "running" \/ ~AllSettled(b) THEN [hs |-> hs, b |-> b]
    ELSE IF b.aborted THEN [hs |-> SkipBatch(hs, b), b |-> Ended("skipped")]
    ELSE [hs |-> ApplyBatch(hs, b, addrs), b |-> [b EXCEPT !.pc = "applied"]]

\* The effect cleanup: abort the latest batch; its pending axios calls reject.
AbortBatch(b) ==
    [b EXCEPT !.aborted = TRUE, !.lk = [i \in 1..Len(b.lk) |-> AfterAbort(b.lk[i])]]

---------------------------------------------------------------------------
(* The geocoding state machine *)

\* Addresses lists the map component passes to the hook: the empty list, one
\* address, two addresses, and two spellings of one address.
GeoLists == {<<>>, <<<<"a">>>>, <<<<"a">>, <<"b">>>>, <<<<" ", "A">>, <<"a">>>>}

\* Lists over a single address, in two spellings
CacheLists == {<<>>, <<<<"a">>>>, <<<<" ", "A">>>>}

\* Lists with a falsy entry beside the address "a": null (or undefined) and
\* the empty string
FalsyLists == {<<>>, <<<<"a">>>>, <<NullAddress, <<"a">>>>, <<<<>>, <<"a">>>>}

CacheKeys == UNION {currentNormalizedAddresses(q) : q \in GeoLists \cup CacheLists} \ {<<>>}

StartDay == GEOCODE_CACHE_EXPIRY_DAYS + 1

\* The cache when the page opens: for key "a" no document, one written
\* today, one exactly GEOCODE_CACHE_EXPIRY_DAYS old (a day later it is
\* expired) or one without a Timestamp; the other keys are not cached yet.
InitDocs ==
    {NoDoc, CacheDoc(OldCoord, StartDay), UndatedDoc(OldCoord),
     CacheDoc(OldCoord, StartDay - GEOCODE_CACHE_EXPIRY_DAYS)}

InitCaches == {c \in [CacheKeys -> InitDocs] : \A k \in CacheKeys \ {<<"a">>} : c[k] = NoDoc}

SetHook(hs) ==
    /\ coordinatesMap' = hs.map
    /\ isLoading' = hs.loading
    /\ error' = hs.err
    /\ processingRef' = hs.proc
    /\ thrown' = hs.thrown

\* A state updater that throws makes the render of the component throw:
\* React unmounts the component (up to the nearest error boundary, or the
\* whole root), so the hook is mounted after the step only if no updater
\* threw in it.
Rendered(hs) == mounted /\ hs.thrown \subseteq thrown \cup {"no new address"}

\* The cleanup of the latest effect: abortController.abort() on the latest
\* batch, whose code after Promise.allSettled runs if that settles it.
Cleanup(hs, bs, addrs) ==
    LET n   == Len(bs)
        fin == IF n > 0 THEN FinishBatch(hs, AbortBatch(bs[n]), addrs) ELSE [hs |-> hs, b |-> <<>>]
    IN [hs |-> fin.hs,
        bs |-> [j \in 1..n |-> IF j = n THEN fin.b ELSE bs[j]]]

\* A render with a changed addressesKey: the cleanup of the previous effect
\* aborts its batch, the effect runs geocodeBatch up to its first await, then
\* the continuations released by the abort run.
SetAddresses(new) ==
    /\ mounted
    /\ addressesKey(new) # addressesKey(addresses)
    /\ LET n   == Len(batches)
           st  == StartBatch(HookState, new)
           cl  == Cleanup(st.hs, [j \in 1..n |-> Forget(batches[j])], addresses)
       IN /\ st.start => n < MaxBatches
          /\ batches' = IF st.start THEN Append(cl.bs, NewBatch(st.toFetch, st.cur))
                        ELSE cl.bs
          /\ SetHook(cl.hs)
    /\ addresses' = new
    /\ UNCHANGED <<mounted, cache, pendingStores, now>>
    /\ UNCHANGED <<dashVars, sdkVars, envoisVars, appVars>>

\* The component unmounts: the cleanup aborts the latest batch.
Unmount ==
    /\ mounted
    /\ mounted' = FALSE
    /\ LET cl == Cleanup(HookState, batches, addresses)
       IN /\ batches' = cl.bs
          /\ SetHook(cl.hs)
    /\ UNCHANGED <<addresses, cache, pendingStores, now>>
    /\ UNCHANGED <<dashVars, sdkVars, envoisVars, appVars>>

\* getDoc of lookup i of batch b answers (or fails): fetchGeocode returns and
\* the lookup continues; the batch finishes if this was its last lookup.
CacheReadReturns(b, i, readOk) ==
    /\ batches[b].lk[i].phase = "cache"
    /\ LET lk  == batches[b].lk[i]
           out == CacheOutcome(lk.key, cache, now, readOk)
           lk2 == AfterCacheRead(lk, fetchGeocode(lk.key, cache, now, readOk), out,
                                 batches[b].aborted)
           fin == FinishBatch(HookState, [batches[b] EXCEPT !.lk[i] = lk2], addresses)
       IN /\ batches' = [batches EXCEPT ![b] = fin.b]
          /\ SetHook(fin.hs)
          /\ mounted' = Rendered(fin.hs)
    /\ UNCHANGED <<addresses, cache, pendingStores, now>>
    /\ UNCHANGED <<dashVars, sdkVars, envoisVars, appVars>>

\* The geocoding API answers a request that was not aborted.
ApiReturns(b, i, answer) ==
    /\ batches[b].lk[i].phase = "api"
    /\ ~batches[b].aborted
    /\ LET lk2 == AfterApi(batches[b].lk[i], answer)
           hs1 == IF IsFailure(answer)
                  THEN [HookState EXCEPT !.err = AppendError(error, ErrorMessage(answer))]
                  ELSE HookState
           fin == FinishBatch(hs1, [batches[b] EXCEPT !.lk[i] = lk2], addresses)
       IN /\ batches' = [batches EXCEPT ![b] = fin.b]
          /\ SetHook(fin.hs)
          /\ mounted' = Rendered(fin.hs)
    /\ pendingStores' = pendingStores (+) StoreRequests(batches[b].lk[i], answer)
    /\ UNCHANGED <<addresses, cache, now>>
    /\ UNCHANGED <<dashVars, sdkVars, envoisVars, appVars>>

\* A failed setDoc is caught inside storeGeocode, and the promise the hook
\* did not await carries a .catch that only logs: the hook state stays.
\* Faulty variant: a failed cache write is reported as a geocoding error
StoreFailureReported(hs) == [hs EXCEPT !.err = AppendError(hs.err, "Erreur de geocodage")]

StoreFailed(hs) == hs

\* The setDoc of a fire-and-forget storeGeocode succeeds or fails.
StoreSettles(w, writeOk) ==
    /\ BagIn(w, pendingStores)
    /\ cache' = storeGeocode(w.key, w.coord, cache, now, writeOk)
    /\ pendingStores' = pendingStores (-) SetToBag({w})
    /\ SetHook(IF writeOk THEN HookState ELSE StoreFailed(HookState))
    /\ UNCHANGED <<mounted, addresses, batches, now>>
    /\ UNCHANGED <<dashVars, sdkVars, envoisVars, appVars>>

\* A day passes.
Tick ==
    /\ now < StartDay + MaxTicks
    /\ now' = now + 1
    /\ UNCHANGED <<mounted, addresses, coordinatesMap, isLoading, error, processingRef,
                   batches, cache, pendingStores, thrown>>
    /\ UNCHANGED <<dashVars, sdkVars, envoisVars, appVars>>

---------------------------------------------------------------------------
(* Ticket readers: getRecentTicketsSdk and getRecentTicketsForSectors *)

TICKET_SECTORS == <<"CHR", "HACCP", "Kezia", "Tabac">>

Timestamp(day) == [t |-> "Timestamp", day |-> day]
JsDate(time)   == [t |-> "Date", time |-> time]
JsUndefined    == [t |-> "undefined"]

\* data.<name>, undefined for a field the document lacks
Field(data, name) == IF name \in DOMAIN data THEN data[name] ELSE JsUndefined

\* A document snapshot: doc.id and doc.data()
Doc(id, data) == [id |-> id, data |-> data]

\* { id: docId, ...data, date: <converted>, secteur: sector }: a later
\* property replaces an earlier one of the same name
\* Faulty variant: the fields of the document win over the sector read
docToSapTicketKeepingStoredSector(docId, data, sector) ==
    data
    @@ [date |-> IF Field(data, "date").t = "Timestamp"
                 THEN JsDate(Field(data, "date").day) ELSE Field(data, "date"),
        secteur |-> sector]
    @@ [id |-> docId]

docToSapTicket(docId, data, sector) ==
    [date |-> IF Field(data, "date").t = "Timestamp"
              THEN JsDate(Field(data, "date").day) ELSE Field(data, "date"),
     secteur |-> sector]
    @@ data @@ [id |-> docId]

\* The mapping inside getRecentTicketsForSectors:
\* { id, ...doc.data(), secteur: sector, date: date?.toDate ? date.toDate() : new Date(0) }
SectorTicket(doc, sector) ==
    [secteur |-> sector,
     date |-> IF Field(doc.data, "date").t = "Timestamp"
              THEN JsDate(Field(doc.data, "date").day) ELSE JsDate(0)]
    @@ doc.data @@ [id |-> doc.id]

\* Faulty variant: the query is ordered by ascending date
QueryOldest(store, sector, count) ==
    SubSeq(store[sector],
           IF count < Len(store[sector]) THEN Len(store[sector]) - count + 1 ELSE 1,
           Len(store[sector]))

\* query(collRef, orderBy("date", "desc"), limit(count)): the first `count`
\* documents of the collection, which is kept latest date first
QueryRecent(store, sector, count) ==
    SubSeq(store[sector], 1, IF count < Len(store[sector]) THEN count ELSE Len(store[sector]))

\* The sort key of getRecentTicketsSdk: getTime() of a Date, 0 otherwise
\* (docToSapTicket has turned every Timestamp into a Date)
DateKey(ticket) == IF ticket.date.t = "Date" THEN ticket.date.time ELSE 0

\* Array.prototype.sort with the comparator dateB - dateA: descending, stable
RECURSIVE InsertByDateDesc(_, _)
InsertByDateDesc(x, sorted) ==
    IF sorted = <<>> THEN <<x>>
    ELSE IF DateKey(Head(sorted)) > DateKey(x)
         THEN <<Head(sorted)>> \o InsertByDateDesc(x, Tail(sorted))
         ELSE <<x>> \o sorted

\* Faulty variant: the merged tickets are left in the order they were read
KeepReadOrder(list) == list

RECURSIVE SortByDateDesc(_)
SortByDateDesc(list) ==
    IF list = <<>> THEN <<>> ELSE InsertByDateDesc(Head(list), SortByDateDesc(Tail(list)))

\* list.slice(0, count) for count >= 0
Slice(list, count) == SubSeq(list, 1, IF count < Len(list) THEN count ELSE Len(list))

\* An argument that is an array, or is not one (undefined)
JsArray(items) == [isArray |-> TRUE, items |-> items]
NotAnArray     == [isArray |-> FALSE]

Includes(list, x) == \E i \in 1..Len(list) : list[i] = x

\* results.forEach(({sector, snapshot}) => snapshot.forEach(doc => allTickets.push(...)))
RECURSIVE MergeSectors(_, _, _)
MergeSectors(sectors, store, count) ==
    IF sectors = <<>> THEN <<>>
    ELSE LET sector == Head(sectors)
             docs == QueryRecent(store, sector, count)
         IN [i \in 1..Len(docs) |-> docToSapTicket(docs[i].id, docs[i].data, sector)]
            \o MergeSectors(Tail(sectors), store, count)

\* getRecentTicketsSdk(count, userSectors); `failing` are the collections whose
\* getDocs rejects.  One rejection rejects Promise.all, and the catch returns [].
getRecentTicketsSdk(count, userSectors, store, failing) ==
    IF ~userSectors.isArray THEN <<>>
    ELSE LET accessibleSectors ==
                 SelectSeq(TICKET_SECTORS, LAMBDA sector : Includes(userSectors.items, sector))
         IN IF accessibleSectors = <<>> THEN <<>>
            ELSE IF \E i \in 1..Len(accessibleSectors) : accessibleSectors[i] \in failing
            THEN <<>>
            ELSE Slice(SortByDateDesc(MergeSectors(accessibleSectors, store, count)), count)

\* resultsBySector.flat(), each sector's promise catching its own error
RECURSIVE FlatSectors(_, _, _, _)
FlatSectors(sectors, store, count, failing) ==
    IF sectors = <<>> THEN <<>>
    ELSE LET sector == Head(sectors)
             docs == QueryRecent(store, sector, count)
         IN (IF sector \in failing THEN <<>>
             ELSE [i \in 1..Len(docs) |-> SectorTicket(docs[i], sector)])
            \o FlatSectors(Tail(sectors), store, count, failing)

\* getRecentTicketsForSectors(sectors, count)
getRecentTicketsForSectors(sectors, count, store, failing) ==
    IF ~sectors.isArray \/ sectors.items = <<>> THEN <<>>
    ELSE Slice(SortByDateDesc(FlatSectors(sectors.items, store, count, failing)), count)

\* The collections a reader may be asked for
Collections == {"CHR", "HACCP", "Kezia", "Tabac", "Autre"}

\* Contents of the sector collections, each latest date first
NoTickets == [c \in Collections |-> <<>>]

TicketStores ==
    { NoTickets,
      [NoTickets EXCEPT
          !["CHR"]   = << Doc("t1", [date |-> Timestamp(9)]),
                          Doc("t2", [date |-> Timestamp(5), secteur |-> "Tabac"]),
                          Doc("t3", [date |-> Timestamp(2)]) >>,
          !["HACCP"] = << Doc("t1", [date |-> Timestamp(7), secteur |-> "CHR"]),
                          Doc("t4", [date |-> Timestamp(5)]),
                          Doc("t5", [date |-> Timestamp(1)]) >>],
      [NoTickets EXCEPT
          !["CHR"]   = << Doc("t1", [date |-> Timestamp(3)]) >>,
          !["Tabac"] = << Doc("t6", [date |-> Timestamp(8)]),
                          Doc("t7", [date |-> Timestamp(6)]),
                          Doc("t8", [date |-> Timestamp(4)]) >>],
      [NoTickets EXCEPT
          !["CHR"]   = << Doc("t9", [date |-> JsString("hier")]),
                          Doc("t1", [date |-> Timestamp(3)]) >>,
          !["Autre"] = << Doc("t1", [date |-> Timestamp(4)]) >>] }

\* The sector lists handed to the readers
SectorArguments ==
    { NotAnArray, JsArray(<<>>), JsArray(<<"CHR">>), JsArray(<<"HACCP", "CHR">>),
      JsArray(<<"Tabac", "CHR">>), JsArray(<<"Autre", "CHR">>) }

\* The collections whose read may fail
Failures == SUBSET {"CHR", "HACCP"}

NoCall == [fn |-> "none"]

\* The Dashboard (or another caller) calls getRecentTicketsSdk and gets its answer
CallGetRecentTicketsSdk(count, userSectors, failing) ==
    /\ sdk' = [fn |-> "getRecentTicketsSdk", count |-> count, sectors |-> userSectors,
               failing |-> failing,
               result |-> getRecentTicketsSdk(count, userSectors, tickets, failing)]
    /\ UNCHANGED <<tickets, geoVars, dashVars, envoisVars, appVars>>

\* A caller calls getRecentTicketsForSectors and gets its answer
CallGetRecentTicketsForSectors(sectors, count, failing) ==
    /\ sdk' = [fn |-> "getRecentTicketsForSectors", count |-> count, sectors |-> sectors,
               failing |-> failing,
               result |-> getRecentTicketsForSectors(sectors, count, tickets, failing)]
    /\ UNCHANGED <<tickets, geoVars, dashVars, envoisVars, appVars>>

\* snapshots.reduce((sum, snapshot) => sum + snapshot.data().count, 0): the
\* server count of a sector collection is the number of its documents
RECURSIVE SumCounts(_, _)
SumCounts(sectors, store) ==
    IF sectors = <<>> THEN 0
    ELSE Len(store[Head(sectors)]) + SumCounts(Tail(sectors), store)

\* The sectors getTotalTicketCountSdk issues getCountFromServer for
CountReads(userSectors) ==
    IF ~userSectors.isArray THEN <<>>
    ELSE SelectSeq(TICKET_SECTORS, LAMBDA sector : Includes(userSectors.items, sector))

\* Faulty variant: a sector whose count fails is left out of the sum
getTotalTicketCountPartial(userSectors, store, failing) ==
    IF ~userSectors.isArray THEN JsNull
    ELSE JsNumber(SumCounts(SelectSeq(CountReads(userSectors),
                                      LAMBDA sector : sector \notin failing), store))

\* getTotalTicketCountSdk(userSectors); `failing` are the collections whose
\* getCountFromServer rejects.  One rejection rejects Promise.all, and the
\* catch returns null.
getTotalTicketCountSdk(userSectors, store, failing) ==
    IF ~userSectors.isArray THEN JsNull
    ELSE LET accessibleSectors == CountReads(userSectors)
         IN IF accessibleSectors = <<>> THEN JsNumber(0)
            ELSE IF \E i \in 1..Len(accessibleSectors) : accessibleSectors[i] \in failing
            THEN JsNull
            ELSE JsNumber(SumCounts(accessibleSectors, store))

\* The collections whose count may fail
CountFailures == SUBSET {"CHR", "HACCP", "Tabac"}

\* The Dashboard (or another caller) calls getTotalTicketCountSdk and gets its
\* answer; `reads` are the counts it asked the server for
CallGetTotalTicketCountSdk(userSectors, failing) ==
    /\ sdk' = [fn |-> "getTotalTicketCountSdk", sectors |-> userSectors,
               failing |-> failing,
               reads |-> CountReads(userSectors),
               result |-> getTotalTicketCountSdk(userSectors, tickets, failing)]
    /\ UNCHANGED <<tickets, geoVars, dashVars, envoisVars, appVars>>

\* No reader was called
SdkIdle ==
    /\ tickets = NoTickets
    /\ sdk = NoCall

---------------------------------------------------------------------------
(* EnvoisCtn: the shipments page's filter, grouping and sector list *)

\* A Shipment as docToShipment builds it: secteur is never falsy
\* (data.secteur || 'Inconnu'); a missing nomClient or codeClient is <<>>
Shipment(id, secteur, nomClient, codeClient) ==
    [id |-> id, secteur |-> secteur, nomClient |-> nomClient, codeClient |-> codeClient]

\* String.prototype.includes
StringIncludes(str, sub) ==
    \E i \in 1..(Len(str) + 1) :
        i + Len(sub) - 1 <= Len(str) /\ SubSeq(str, i, i + Len(sub) - 1) = sub

\* Faulty variant: the search compares without lower-casing
FilterShipmentsCaseSensitive(all, sector, term) ==
    LET bySector == IF sector # "" THEN SelectSeq(all, LAMBDA sh : sh.secteur = sector)
                    ELSE all
    IN IF Trim(term) # <<>>
       THEN SelectSeq(bySector, LAMBDA sh :
                \/ sh.nomClient # <<>> /\ StringIncludes(sh.nomClient, Trim(term))
                \/ sh.codeClient # <<>> /\ StringIncludes(sh.codeClient, Trim(term)))
       ELSE bySector

\* The shipments that reach groupShipmentsByClient
FilterShipments(all, sector, term) ==
    LET bySector == IF sector # "" THEN SelectSeq(all, LAMBDA sh : sh.secteur = sector)
                    ELSE all
        lowerSearchTerm == LowerCase(Trim(term))
    IN IF Trim(term) # <<>>
       THEN SelectSeq(bySector, LAMBDA sh :
                \/ sh.nomClient # <<>> /\ StringIncludes(LowerCase(sh.nomClient), lowerSearchTerm)
                \/ sh.codeClient # <<>> /\ StringIncludes(LowerCase(sh.codeClient), lowerSearchTerm))
       ELSE bySector

ClientInconnu == <<"C", "l", "i", "e", "n", "t", " ", "I", "n", "c", "o", "n", "n", "u">>

\* shipment.nomClient || 'Client Inconnu'
ClientName(shipment) == IF shipment.nomClient # <<>> THEN shipment.nomClient ELSE ClientInconnu

\* grouped.get(clientName) ? push : set; the Map keeps its keys in insertion
\* order, so it is a sequence of entries [key, members]
AddToGroup(grouped, shipment) ==
    IF \E i \in 1..Len(grouped) : grouped[i].key = ClientName(shipment)
    THEN [i \in 1..Len(grouped) |->
             IF grouped[i].key = ClientName(shipment)
             THEN [grouped[i] EXCEPT !.members = Append(@, shipment)]
             ELSE grouped[i]]
    ELSE Append(grouped, [key |-> ClientName(shipment), members |-> <<shipment>>])

RECURSIVE GroupFrom(_, _)
GroupFrom(grouped, shipments) ==
    IF shipments = <<>> THEN grouped
    ELSE GroupFrom(AddToGroup(grouped, Head(shipments)), Tail(shipments))

groupShipmentsByClient(shipments) == GroupFrom(<<>>, shipments)

\* a.localeCompare(b) < 0: letters compare without regard to case first; of
\* two strings equal up to case the one with the lower-case letter comes first
LetterRank(c) ==
    CASE c \in {"a", "A"} -> 1 [] c \in {"b", "B"} -> 2 [] c = " " -> 0 [] OTHER -> 3

RECURSIVE PrimaryCompare(_, _)
PrimaryCompare(a, b) ==
    IF a = <<>> /\ b = <<>> THEN 0
    ELSE IF a = <<>> THEN -1
    ELSE IF b = <<>> THEN 1
    ELSE IF LetterRank(Head(a)) # LetterRank(Head(b))
         THEN (IF LetterRank(Head(a)) < LetterRank(Head(b)) THEN -1 ELSE 1)
         ELSE PrimaryCompare(Tail(a), Tail(b))

RECURSIVE CaseCompare(_, _)
CaseCompare(a, b) ==
    IF a = <<>> \/ b = <<>> THEN 0
    ELSE IF Head(a) # Head(b) THEN (IF ToLower(Head(a)) = Head(a) THEN -1 ELSE 1)
    ELSE CaseCompare(Tail(a), Tail(b))

localeCompare(a, b) ==
    IF PrimaryCompare(a, b) # 0 THEN PrimaryCompare(a, b) ELSE CaseCompare(a, b)

\* entries.sort((a, b) => a[0].localeCompare(b[0])): ascending, stable
RECURSIVE InsertEntry(_, _)
InsertEntry(x, sorted) ==
    IF sorted = <<>> THEN <<x>>
    ELSE IF localeCompare(Head(sorted).key, x.key) < 0
         THEN <<Head(sorted)>> \o InsertEntry(x, Tail(sorted))
         ELSE <<x>> \o sorted

\* Faulty variant: the groups stay in the order of the Map
KeepInsertionOrder(entries) == entries

RECURSIVE SortEntries(_)
SortEntries(entries) ==
    IF entries = <<>> THEN <<>> ELSE InsertEntry(Head(entries), SortEntries(Tail(entries)))

\* useMemo filteredAndGroupedShipments, then useMemo clientGroups
filteredAndGroupedShipments ==
    groupShipmentsByClient(FilterShipments(allShipments, selectedSector, searchTerm))

clientGroups == SortEntries(filteredAndGroupedShipments)

\* Array.prototype.sort() on the sector names: order of their code units
SectorRank(sector) ==
    CASE sector = "CHR" -> 1 [] sector = "HACCP" -> 2 [] sector = "Inconnu" -> 3
      [] sector = "Kezia" -> 4 [] sector = "Tabac" -> 5 [] OTHER -> 6

RECURSIVE SortSectors(_)
SortSectors(set) ==
    IF set = {} THEN <<>>
    ELSE LET first == CHOOSE x \in set : \A y \in set : SectorRank(x) <= SectorRank(y)
         IN <<first>> \o SortSectors(set \ {first})

\* Faulty variant: the sectors are taken from the filtered shipments
availableSectorsOfFiltered(all) ==
    LET filtered == FilterShipments(all, selectedSector, searchTerm)
    IN SortSectors({filtered[i].secteur : i \in 1..Len(filtered)})

\* useMemo availableSectors: new Set(allShipments.map(s => s.secteur).filter(Boolean)), sorted
availableSectors(all) == SortSectors({all[i].secteur : i \in 1..Len(all)})

\* The shipment collections getAllShipmentsSdk may return
ShipmentLists ==
    { <<>>,
      << Shipment("e1", "CHR", <<"B">>, <<"a", "b">>), Shipment("e2", "HACCP", <<"a">>, <<"b">>),
         Shipment("e3", "CHR", <<"B">>, <<>>) >>,
      << Shipment("e4", "CHR", <<>>, <<"a">>), Shipment("e5", "Inconnu", <<>>, <<"b">>),
         Shipment("e2", "HACCP", <<"a">>, <<"b">>) >>,
      << Shipment("e6", "HACCP", <<"b", "a">>, <<"B">>), Shipment("e7", "CHR", <<"A">>, <<"a", "b">>),
         Shipment("e2", "HACCP", <<"a">>, <<"b">>), Shipment("e4", "CHR", <<>>, <<"a">>),
         Shipment("e6b", "CHR", <<"b", "a">>, <<"b">>) >>,
      << Shipment("e8", "CHR", <<"b">>, <<"A">>), Shipment("e9", "CHR", <<"a", "B">>, <<>>),
         Shipment("e10", "Tabac", <<"B">>, <<"a">>), Shipment("e11", "CHR", <<"b">>, <<"b">>) >> }

\* The values of the sector select and of the search box
SectorChoices == {"", "CHR", "HACCP", "Tabac"}
SearchTerms   == {<<>>, <<" ">>, <<"a">>, <<" ", "B", " ">>, <<"a", "b">>, <<"A", "B">>}

\* getAllShipmentsSdk resolved: setAllShipments(shipments)
SetAllShipments(shipments) ==
    /\ allShipments' = shipments
    /\ UNCHANGED <<selectedSector, searchTerm, geoVars, dashVars, sdkVars, appVars>>

\* onChange of the sector select
SetSelectedSector(sector) ==
    /\ selectedSector' = sector
    /\ UNCHANGED <<allShipments, searchTerm, geoVars, dashVars, sdkVars, appVars>>

\* onChange of the search box
SetSearchTerm(term) ==
    /\ searchTerm' = term
    /\ UNCHANGED <<allShipments, selectedSector, geoVars, dashVars, sdkVars, appVars>>

\* The page before its fetch answered, no filter set
EnvoisIdle ==
    /\ allShipments = <<>>
    /\ selectedSector = ""
    /\ searchTerm = <<>>

---------------------------------------------------------------------------
(* Dashboard: the data-loading effect and the fetchTrigger effect *)

NoUser == "none"
Users  == {"u1"}

NoEvolution == [ticketCount |-> JsNull, shipmentCount |-> JsNull, clientCount |-> JsNull]

\* The useState initial values of the Dashboard
InitialDash ==
    [liveTicketCount |-> JsNull, liveShipmentCount |-> JsNull, liveClientCount |-> JsNull,
     evolution |-> NoEvolution, recentTickets |-> <<>>, recentShipments |-> <<>>,
     loadingStats |-> TRUE, loadingTickets |-> TRUE, loadingShipments |-> TRUE,
     error |-> JsNull]

\* loadDashboardData without a user: flags off, everything cleared
ClearedDash ==
    [InitialDash EXCEPT !.loadingStats = FALSE, !.loadingTickets = FALSE,
                        !.loadingShipments = FALSE]

\* loadDashboardData with a user, up to its first await
LoadingDash(d) ==
    [d EXCEPT !.loadingStats = TRUE, !.loadingTickets = TRUE,
              !.loadingShipments = TRUE, !.error = JsNull]

\* A run of loadDashboardData awaiting getUserProfile(user.uid)
NewLoad(u) == [user |-> u, pc |-> "profile", userSectors |-> <<>>, fetched |-> <<>>]

\* One run of the data effect for user u
RunDataEffect(d, ls, u) ==
    IF u = NoUser THEN [dash |-> ClearedDash, loads |-> ls]
    ELSE [dash |-> LoadingDash(d), loads |-> Append(ls, NewLoad(u))]

\* What getUserProfile resolves to: null, or a profile with its sectors
NoProfile == [exists |-> FALSE]
Profiles  == {NoProfile, [exists |-> TRUE, secteurs |-> <<"CHR">>]}

\* userProfile?.secteurs ?? []
SectorsOf(userProfile) == IF userProfile.exists THEN userProfile.secteurs ELSE <<>>

\* What the six fetches of Promise.all resolve to, each after its own .catch
\* (a failed snapshot or list fetch gives [], a failed count gives null)
Snapshot(t, s, c) == [ticketCount |-> t, shipmentCount |-> s, clientCount |-> c]

Fetched ==
    { [latestSnapshotResult |-> <<Snapshot(JsNumber(5), JsNumber(2), JsNumber(3))>>,
       liveTicketCount |-> JsNumber(7), liveShipmentCount |-> JsNumber(2),
       liveClientCount |-> JsNumber(1),
       tickets |-> <<"t1">>, shipments |-> <<"s1">>],
      [latestSnapshotResult |-> <<Snapshot(JsUndefined, JsNumber(2), JsNumber(3))>>,
       liveTicketCount |-> JsNumber(7), liveShipmentCount |-> JsNull,
       liveClientCount |-> JsNumber(4),
       tickets |-> <<"t2">>, shipments |-> <<>>],
      [latestSnapshotResult |-> <<>>,
       liveTicketCount |-> JsNull, liveShipmentCount |-> JsNull,
       liveClientCount |-> JsNull,
       tickets |-> <<>>, shipments |-> <<>>],
      [latestSnapshotResult |-> <<>>,
       liveTicketCount |-> JsNumber(3), liveShipmentCount |-> JsNumber(0),
       liveClientCount |-> JsNull,
       tickets |-> <<"t1">>, shipments |-> <<>>] }

\* latestSnapshot?.<field>
SnapshotField(latestSnapshotResult, field) ==
    IF Len(latestSnapshotResult) > 0 THEN latestSnapshotResult[1][field] ELSE JsUndefined

\* Faulty variant: without a snapshot value the evolution stays null
EvolutionNullWithoutSnapshot(live, snapshotValue) ==
    IF live # JsNull /\ snapshotValue # JsUndefined THEN JsNumber(live.v - snapshotValue.v)
    ELSE JsNull

\* One field of calculatedEvolution
Evolution(live, snapshotValue) ==
    IF live # JsNull /\ snapshotValue # JsUndefined THEN JsNumber(live.v - snapshotValue.v)
    ELSE IF live # JsNull THEN JsNumber(0)
    ELSE JsNull

\* Faulty variant: the run turns off loadingStats alone
ShowDataStatsOnly(d, f) ==
    [d EXCEPT !.liveTicketCount = f.liveTicketCount,
              !.liveShipmentCount = f.liveShipmentCount,
              !.liveClientCount = f.liveClientCount,
              !.loadingStats = FALSE,
              !.recentTickets = f.tickets,
              !.recentShipments = f.shipments]

\* The state updates after `await Promise.all([...])`
ShowData(d, f) ==
    [d EXCEPT !.liveTicketCount = f.liveTicketCount,
              !.liveShipmentCount = f.liveShipmentCount,
              !.liveClientCount = f.liveClientCount,
              !.evolution =
                  [ticketCount   |-> Evolution(f.liveTicketCount,
                                       SnapshotField(f.latestSnapshotResult, "ticketCount")),
                   shipmentCount |-> Evolution(f.liveShipmentCount,
                                       SnapshotField(f.latestSnapshotResult, "shipmentCount")),
                   clientCount   |-> Evolution(f.liveClientCount,
                                       SnapshotField(f.latestSnapshotResult, "clientCount"))],
              !.loadingStats = FALSE,
              !.recentTickets = f.tickets,
              !.recentShipments = f.shipments,
              !.loadingTickets = FALSE,
              !.loadingShipments = FALSE]

\* The outlet context hands the Dashboard another user (login, logout): the
\* commit runs the data effect, then the effect on [user], which increments
\* fetchTrigger for a user.
UserChanges(u) ==
    /\ u # user
    /\ u # NoUser => Len(loads) < MaxLoads
    /\ user' = u
    /\ LET run == RunDataEffect(dash, loads, u)
       IN /\ dash' = run.dash
          /\ loads' = run.loads
    /\ seenTrigger' = <<u, fetchTrigger>>
    /\ fetchTrigger' = IF u # NoUser THEN fetchTrigger + 1 ELSE fetchTrigger
    /\ UNCHANGED <<geoVars, sdkVars, envoisVars, appVars>>

\* The render after setFetchTrigger: the data effect runs for the new value.
TriggerRerender ==
    /\ seenTrigger # <<user, fetchTrigger>>
    /\ user # NoUser => Len(loads) < MaxLoads
    /\ LET run == RunDataEffect(dash, loads, user)
       IN /\ dash' = run.dash
          /\ loads' = run.loads
    /\ seenTrigger' = <<user, fetchTrigger>>
    /\ UNCHANGED <<user, fetchTrigger>>
    /\ UNCHANGED <<geoVars, sdkVars, envoisVars, appVars>>

\* getUserProfile resolves (it catches its own errors): the six fetches start.
ProfileReturns(i, userProfile) ==
    /\ loads[i].pc = "profile"
    /\ loads' = [loads EXCEPT ![i].pc = "data", ![i].userSectors = SectorsOf(userProfile)]
    /\ UNCHANGED <<user, fetchTrigger, seenTrigger, dash>>
    /\ UNCHANGED <<geoVars, sdkVars, envoisVars, appVars>>

\* Promise.all resolves: the run computes the evolution and sets the state.
\* Every promise awaited in the try block handles its own rejection.
DataReturns(i, f) ==
    /\ loads[i].pc = "data"
    /\ dash' = ShowData(dash, f)
    /\ loads' = [loads EXCEPT ![i].pc = "done", ![i].fetched = f]
    /\ UNCHANGED <<user, fetchTrigger, seenTrigger>>
    /\ UNCHANGED <<geoVars, sdkVars, envoisVars, appVars>>

\* The Dashboard mounted without a user, its effects done
DashIdle ==
    /\ user = NoUser
    /\ fetchTrigger = 0
    /\ seenTrigger = <<NoUser, 0>>
    /\ dash = ClearedDash
    /\ loads = <<>>

---------------------------------------------------------------------------
(* normalizeAddress as a function of any address string *)

\* The characters of the address strings: whitespace, a lower-case and an
\* upper-case letter
Chars == {" ", "\t", "a", "A"}

RECURSIVE StringsOfLen(_)
StringsOfLen(n) ==
    IF n = 0 THEN {<<>>}
    ELSE {Append(t, c) : t \in StringsOfLen(n - 1), c \in Chars}

AddressStrings == UNION {StringsOfLen(n) : n \in 0..MaxLen}

\* A caller normalizes the address
CallNormalizeAddress ==
    /\ normKey = Undefined
    /\ normKey' = normalizeAddress(typed)
    /\ UNCHANGED <<typed, normAgain>>
    /\ UNCHANGED <<geoVars, dashVars, sdkVars, envoisVars, authVars, adminVars>>

\* A caller normalizes the key it got (an address kept in normalized form
\* is handed to the hook again)
CallNormalizeAddressAgain ==
    /\ normKey # Undefined /\ normAgain = Undefined
    /\ normAgain' = normalizeAddress(normKey)
    /\ UNCHANGED <<typed, normKey>>
    /\ UNCHANGED <<geoVars, dashVars, sdkVars, envoisVars, authVars, adminVars>>

\* normalizeAddress is not being called
NormIdle == typed = <<>> /\ normKey = Undefined /\ normAgain = Undefined

---------------------------------------------------------------------------
(* App: the Firebase Auth listener and getUserProfile *)

AppUsers == {"u1", "u2"}

\* role and name strings, as sequences of characters
RoleAdmin      == <<"A", "d", "m", "i", "n">>
RoleAdminUpper == <<"A", "D", "M", "I", "N">>
RoleTechnician == <<"T", "e", "c", "h", "n", "i", "c", "i", "a", "n">>

\* The documents of the "users" collection when the page opens: u1 is an
\* administrator (role in capitals), u2 has neither role nor displayName
UserDocs ==
    [u \in AppUsers |->
        IF u = "u1"
        THEN [email |-> JsString("u1@jdc"), role |-> JsString(RoleAdminUpper),
              secteurs |-> <<"CHR", "Tabac">>, displayName |-> JsString("Ana")]
        ELSE [email |-> JsString("u2@jdc"), secteurs |-> <<"HACCP">>]]

\* getUserProfile(userId): the profile built from the document, null (NoProfile)
\* when the document is missing or the read fails (the catch returns null)
getUserProfile(userId, docs, readOk) ==
    IF readOk /\ userId \in DOMAIN docs
    THEN LET data == docs[userId]
         IN [exists |-> TRUE,
             uid |-> userId,
             email |-> IF "email" \in DOMAIN data THEN data.email ELSE JsString(""),
             role |-> IF "role" \in DOMAIN data THEN data.role ELSE JsString(RoleTechnician),
             secteurs |-> IF "secteurs" \in DOMAIN data THEN data.secteurs ELSE <<>>,
             displayName |-> Field(data, "displayName")]
    ELSE NoProfile

\* Firebase Auth has not called the listener yet
AuthUnknown == "unknown"

---------------------------------------------------------------------------
(* AdminPanel: authorization, the user list and the edit modal *)

\* const isAdmin = user && profile?.role?.toLowerCase() === 'admin': null for
\* no user (the left operand of &&), otherwise the boolean
isAdmin(u, p) ==
    IF u = NoUser THEN JsNull
    ELSE JsBool(/\ p.exists
                /\ Field(p, "role").t = "string"
                /\ LowerCase(Field(p, "role").s) = <<"a", "d", "m", "i", "n">>)

\* The useState values of AdminPanel at its first render
AdminInitial ==
    [mounted |-> FALSE, isAuthorized |-> JsNull, users |-> <<>>, loadingUsers |-> FALSE,
     errorUsers |-> JsNull, isEditModalOpen |-> FALSE, editingUser |-> NoProfile,
     isSigningUp |-> FALSE, signupError |-> JsNull]

\* fetchUsers up to its await
fetchUsers(a) == [a EXCEPT !.loadingUsers = TRUE, !.errorUsers = JsNull]

\* A pending call of getAllUserProfilesSdk
FetchCall == [kind |-> "getAllUserProfilesSdk"]

\* The two effects of AdminPanel after a render with the outlet context
\* (u, p, l): the authorization effect sets isAuthorized; if that changed
\* it, the fetch effect runs in the render that follows: fetchUsers() for
\* true, setUsers([]) for false, nothing for null.
AdminEffects(a, u, p, l) ==
    LET authorized == IF l THEN JsNull ELSE isAdmin(u, p)
    IN IF authorized = a.isAuthorized THEN [a |-> a, fetch |-> FALSE]
       ELSE IF authorized = JsBool(TRUE)
       THEN [a |-> fetchUsers([a EXCEPT !.isAuthorized = authorized]), fetch |-> TRUE]
       ELSE IF authorized = JsBool(FALSE)
       THEN [a |-> [a EXCEPT !.isAuthorized = authorized, !.users = <<>>], fetch |-> FALSE]
       ELSE [a |-> [a EXCEPT !.isAuthorized = authorized], fetch |-> FALSE]

\* What a state change of App does to a mounted AdminPanel: it re-renders
\* with the new outlet context and its effects run
AdminCommit(u, p, l) ==
    IF admin.mounted
    THEN LET e == AdminEffects(admin, u, p, l)
         IN /\ e.fetch => Len(adminCalls) < MaxCalls
            /\ admin' = e.a
            /\ adminCalls' = IF e.fetch THEN Append(adminCalls, FetchCall) ELSE adminCalls
            /\ UNCHANGED <<usersColl, saves>>
    ELSE UNCHANGED adminVars

\* The render gate of AdminPanel
AdminView ==
    IF loadingAuth \/ admin.isAuthorized = JsNull THEN "checking"
    ELSE IF admin.isAuthorized # JsBool(TRUE) THEN "denied"
    ELSE "panel"

\* The users table is shown
TableShown ==
    /\ AdminView = "panel"
    /\ ~admin.loadingUsers /\ admin.errorUsers = JsNull /\ Len(admin.users) > 0

\* [...(list || [])].sort()
RECURSIVE SortSectorList(_)
SortSectorList(list) ==
    IF list = <<>> THEN <<>>
    ELSE LET rest == SortSectorList(Tail(list))
             before == SelectSeq(rest, LAMBDA x : SectorRank(x) < SectorRank(Head(list)))
             after == SelectSeq(rest, LAMBDA x : SectorRank(x) >= SectorRank(Head(list)))
         IN before \o <<Head(list)>> \o after

\* p.secteurs || []
SecteursOrEmpty(p) == IF "secteurs" \in DOMAIN p THEN p.secteurs ELSE <<>>

NoData == [k \in {} |-> JsNull]

\* Faulty variant: every field of the form is sent
dataToUpdateEverything(editingUser, updatedUser) ==
    [displayName |-> Field(updatedUser, "displayName"),
     role |-> Field(updatedUser, "role"),
     secteurs |-> SecteursOrEmpty(updatedUser)]

\* dataToUpdate of handleSaveUser: the fields that differ
dataToUpdate(editingUser, updatedUser) ==
    (IF Field(updatedUser, "displayName") # Field(editingUser, "displayName")
     THEN [displayName |-> Field(updatedUser, "displayName")] ELSE NoData)
    @@ (IF Field(updatedUser, "role") # Field(editingUser, "role")
        THEN [role |-> Field(updatedUser, "role")] ELSE NoData)
    @@ (IF SortSectorList(SecteursOrEmpty(editingUser))
              # SortSectorList(SecteursOrEmpty(updatedUser))
        THEN [secteurs |-> SecteursOrEmpty(updatedUser)] ELSE NoData)

\* handleCloseEditModal
handleCloseEditModal(a) == [a EXCEPT !.isEditModalOpen = FALSE, !.editingUser = NoProfile]

\* { uid: doc.id, ...doc.data() }
ListedProfile(uid, data) == [exists |-> TRUE] @@ data @@ [uid |-> uid]

\* getAllUserProfilesSdk: the documents ordered by email (the uids of the
\* model are in the order of their emails)
UidRank(u) == CASE u = "u1" -> 1 [] u = "u2" -> 2 [] OTHER -> 3
EmailBefore(x, y) == UidRank(x) <= UidRank(y)

RECURSIVE ProfilesFrom(_, _)
ProfilesFrom(docs, uids) ==
    IF uids = {} THEN <<>>
    ELSE LET first == CHOOSE x \in uids : \A y \in uids : EmailBefore(x, y)
         IN <<ListedProfile(first, docs[first])>> \o ProfilesFrom(docs, uids \ {first})

getAllUserProfilesSdk(docs) ==
    ProfilesFrom(docs, {u \in DOMAIN docs : "email" \in DOMAIN docs[u]})

\* onAuthStateChanged calls the listener with firebaseUser (on registration
\* and on every sign-in and sign-out): up to its await for a user, whole for
\* null.
AuthStateChanged(fu) ==
    /\ fu # firebaseUser
    /\ firebaseUser' = fu
    /\ IF fu # NoUser
       THEN /\ Len(profileFetches) < MaxFetches
            /\ appUser' = fu
            /\ profileFetches' = Append(profileFetches, [uid |-> fu, pc |-> "fetching"])
            /\ UNCHANGED <<appProfile, loadingAuth>>
       ELSE /\ appUser' = NoUser
            /\ appProfile' = NoProfile
            /\ loadingAuth' = FALSE
            /\ UNCHANGED profileFetches
    /\ AdminCommit(appUser', appProfile', loadingAuth')
    /\ UNCHANGED <<geoVars, dashVars, sdkVars, envoisVars, normVars>>

\* getUserProfile of listener run i answers: setProfile(userProfile) and
\* setLoadingAuth(false)
GetUserProfileReturns(i, readOk) ==
    /\ profileFetches[i].pc = "fetching"
    /\ appProfile' = getUserProfile(profileFetches[i].uid, usersColl, readOk)
    /\ loadingAuth' = FALSE
    /\ profileFetches' = [profileFetches EXCEPT ![i].pc = "done"]
    /\ UNCHANGED <<firebaseUser, appUser>>
    /\ AdminCommit(appUser', appProfile', loadingAuth')
    /\ UNCHANGED <<geoVars, dashVars, sdkVars, envoisVars, normVars>>

\* App before Firebase Auth has called the listener
AuthIdle ==
    /\ firebaseUser = AuthUnknown
    /\ appUser = NoUser
    /\ appProfile = NoProfile
    /\ loadingAuth = TRUE
    /\ profileFetches = <<>>

\* The /admin route is not open; the users collection as deployed
AdminIdle ==
    /\ usersColl = UserDocs
    /\ admin = AdminInitial
    /\ adminCalls = <<>>
    /\ saves = 0

AppIdle == NormIdle /\ AuthIdle /\ AdminIdle

\* The sequence of pending calls without call i
WithoutCall(calls, i) == SubSeq(calls, 1, i - 1) \o SubSeq(calls, i + 1, Len(calls))

\* The /admin route is opened: first render and first run of the effects
AdminMount ==
    /\ ~admin.mounted
    /\ LET e == AdminEffects([AdminInitial EXCEPT !.mounted = TRUE],
                              appUser, appProfile, loadingAuth)
       IN /\ e.fetch => Len(adminCalls) < MaxCalls
          /\ admin' = e.a
          /\ adminCalls' = IF e.fetch THEN Append(adminCalls, FetchCall) ELSE adminCalls
    /\ UNCHANGED <<usersColl, saves, authVars>>
    /\ UNCHANGED <<geoVars, dashVars, sdkVars, envoisVars, normVars>>

\* getAllUserProfilesSdk of call i answers inside fetchUsers
GetAllUserProfilesReturns(i, readOk) ==
    /\ adminCalls[i].kind = "getAllUserProfilesSdk"
    /\ admin' = IF readOk
                THEN [admin EXCEPT !.users = getAllUserProfilesSdk(usersColl),
                                   !.loadingUsers = FALSE]
                ELSE [admin EXCEPT !.errorUsers = JsString("Impossible de récupérer la liste des utilisateurs."),
                                   !.loadingUsers = FALSE]
    /\ adminCalls' = WithoutCall(adminCalls, i)
    /\ UNCHANGED <<usersColl, saves, authVars>>
    /\ UNCHANGED <<geoVars, dashVars, sdkVars, envoisVars, normVars>>

\* handleOpenEditModal on row k of the table
HandleOpenEditModal(k) ==
    /\ TableShown
    /\ k \in 1..Len(admin.users)
    /\ admin' = [admin EXCEPT !.editingUser = admin.users[k], !.isEditModalOpen = TRUE]
    /\ UNCHANGED <<usersColl, adminCalls, saves, authVars>>
    /\ UNCHANGED <<geoVars, dashVars, sdkVars, envoisVars, normVars>>

\* The modal's onClose
HandleCloseEditModal ==
    /\ AdminView = "panel"
    /\ admin.isEditModalOpen
    /\ admin' = handleCloseEditModal(admin)
    /\ UNCHANGED <<usersColl, adminCalls, saves, authVars>>
    /\ UNCHANGED <<geoVars, dashVars, sdkVars, envoisVars, normVars>>

\* What the edit form can hand to onSave for the user e: each of the three
\* fields as it was or changed, the sectors also in another order
Reversed(list) == [i \in 1..Len(list) |-> list[Len(list) + 1 - i]]

Edits(e) ==
    {[displayName |-> d, role |-> r, secteurs |-> l] @@ e :
        d \in {Field(e, "displayName"), JsString("Bob")},
        r \in {Field(e, "role"), JsString(RoleAdmin)},
        l \in {SecteursOrEmpty(e), Reversed(SecteursOrEmpty(e)), <<"Kezia">>}}

\* The edits that leave the name and the sectors as they are
RoleEdits(e) ==
    {u \in Edits(e) : /\ Field(u, "displayName") = Field(e, "displayName")
                      /\ SecteursOrEmpty(u) = SecteursOrEmpty(e)}

\* handleSaveUser(updatedUser) up to its await, or to its early return
HandleSaveUser(updatedUser) ==
    /\ AdminView = "panel"
    /\ admin.isEditModalOpen
    /\ admin.editingUser # NoProfile
    /\ LET data == dataToUpdate(admin.editingUser, updatedUser)
       IN IF DOMAIN data = {}
          THEN /\ admin' = handleCloseEditModal(admin)
               /\ UNCHANGED <<adminCalls, saves>>
          ELSE /\ Len(adminCalls) < MaxCalls
               /\ adminCalls' = Append(adminCalls,
                      [kind |-> "updateUserProfileSdk", uid |-> admin.editingUser.uid,
                       data |-> data])
               /\ saves < MaxSaves
               /\ saves' = saves + 1
               /\ UNCHANGED admin
    /\ UNCHANGED <<usersColl, authVars>>
    /\ UNCHANGED <<geoVars, dashVars, sdkVars, envoisVars, normVars>>

\* updateDoc of call i answers: on success handleCloseEditModal() and
\* fetchUsers(); on failure the rethrow to the modal
UpdateUserProfileReturns(i, writeOk) ==
    /\ adminCalls[i].kind = "updateUserProfileSdk"
    /\ IF writeOk
       THEN /\ usersColl' = [usersColl EXCEPT ![adminCalls[i].uid] = adminCalls[i].data @@ @]
            /\ admin' = fetchUsers(handleCloseEditModal(admin))
            /\ adminCalls' = Append(WithoutCall(adminCalls, i), FetchCall)
       ELSE /\ UNCHANGED admin
            /\ adminCalls' = WithoutCall(adminCalls, i)
            /\ UNCHANGED usersColl
    /\ UNCHANGED <<saves, authVars>>
    /\ UNCHANGED <<geoVars, dashVars, sdkVars, envoisVars, normVars>>

\* The account the signup form creates
NewUser == "u3"

\* NewUser has an account once Firebase Auth has signed them in
HasAccount == \E j \in 1..Len(profileFetches) : profileFetches[j].uid = NewUser

\* handleSignup up to the await of signUpAndCreateProfile
HandleSignup ==
    /\ AdminView = "panel"
    /\ Len(adminCalls) < MaxCalls
    /\ admin' = [admin EXCEPT !.isSigningUp = TRUE, !.signupError = JsNull]
    /\ adminCalls' = Append(adminCalls, [kind |-> "signUpAndCreateProfile", pc |-> "auth"])
    /\ UNCHANGED <<usersColl, saves, authVars>>
    /\ UNCHANGED <<geoVars, dashVars, sdkVars, envoisVars, normVars>>

\* createUserWithEmailAndPassword of call i answers. On success Firebase Auth
\* has signed the new user in: the listener of App runs (setUser, getUserProfile
\* started), AdminPanel re-renders, and createUserProfileSdk is started. On
\* failure handleSignup's catch and finally run.
CreateUserReturns(i, created) ==
    /\ adminCalls[i].kind = "signUpAndCreateProfile"
    /\ adminCalls[i].pc = "auth"
    /\ IF created
       THEN /\ ~HasAccount
            /\ Len(profileFetches) < MaxFetches
            /\ firebaseUser' = NewUser
            /\ appUser' = NewUser
            /\ profileFetches' = Append(profileFetches, [uid |-> NewUser, pc |-> "fetching"])
            /\ UNCHANGED <<appProfile, loadingAuth>>
            /\ LET e == AdminEffects(admin, NewUser, appProfile, loadingAuth)
                   calls == [adminCalls EXCEPT ![i].pc = "profile"]
               IN /\ admin' = e.a
                  /\ adminCalls' = IF e.fetch THEN Append(calls, FetchCall) ELSE calls
       ELSE /\ admin' = [admin EXCEPT !.signupError = JsString("signup"),
                                      !.isSigningUp = FALSE]
            /\ adminCalls' = WithoutCall(adminCalls, i)
            /\ UNCHANGED authVars
    /\ UNCHANGED <<usersColl, saves>>
    /\ UNCHANGED <<geoVars, dashVars, sdkVars, envoisVars, normVars>>

\* setDoc of createUserProfileSdk answers for call i: on success
\* fetchUsers(), on failure the catch; setIsSigningUp(false) in both
CreateUserProfileReturns(i, writeOk) ==
    /\ adminCalls[i].kind = "signUpAndCreateProfile"
    /\ adminCalls[i].pc = "profile"
    /\ IF writeOk
       THEN /\ usersColl' = [u \in DOMAIN usersColl \cup {NewUser} |->
                   IF u = NewUser
                   THEN [email |-> JsString("u3@jdc"), displayName |-> JsString("Cy"),
                         role |-> JsString(RoleTechnician), secteurs |-> <<>>]
                   ELSE usersColl[u]]
            /\ admin' = [fetchUsers(admin) EXCEPT !.isSigningUp = FALSE]
            /\ adminCalls' = Append(WithoutCall(adminCalls, i), FetchCall)
       ELSE /\ admin' = [admin EXCEPT !.signupError = JsString("signup"),
                                      !.isSigningUp = FALSE]
            /\ adminCalls' = WithoutCall(adminCalls, i)
            /\ UNCHANGED usersColl
    /\ UNCHANGED <<saves, authVars>>
    /\ UNCHANGED <<geoVars, dashVars, sdkVars, envoisVars, normVars>>

---------------------------------------------------------------------------
(* Initial states and specifications *)

\* The hook right after its first render with an empty addresses list
HookInit ==
    /\ mounted = TRUE
    /\ addresses = <<>>
    /\ coordinatesMap = EmptyMap
    /\ isLoading = FALSE
    /\ error = <<>>
    /\ processingRef = {}
    /\ batches = <<>>
    /\ pendingStores = EmptyBag
    /\ now = StartDay
    /\ thrown = {}

\* The lookups started so far, as <<batch, position>>
Lookups == {<<b, i>> \in (1..Len(batches)) \X (1..2) : i <= Len(batches[b].lk)}

(* SpecGeo: the hook under changing lists of two addresses.  The cache starts
   empty and its reads answer (a failed read and a miss are the same null to
   the hook); the API gives a result, no result or an HTTP 401. *)
InitGeo ==
    /\ HookInit
    /\ cache = [k \in CacheKeys |-> NoDoc]
    /\ DashIdle
    /\ SdkIdle
    /\ EnvoisIdle
    /\ AppIdle

GeoAnswers == {a \in ApiAnswers : a.kind # "noresponse"}

NextGeo ==
    \/ \E new \in GeoLists : SetAddresses(new)
    \/ Unmount
    \/ \E l \in Lookups : CacheReadReturns(l[1], l[2], TRUE)
    \/ \E l \in Lookups : \E answer \in GeoAnswers : ApiReturns(l[1], l[2], answer)
    \/ \E w \in BagToSet(pendingStores) : \E writeOk \in BOOLEAN : StoreSettles(w, writeOk)

SpecGeo == InitGeo /\ [][NextGeo]_vars

(* SpecGeoLive: SpecGeo where every cache read, API call and cache write that
   is pending eventually completes (the network answers or times out); the
   list may change or stay at any moment. *)
GeoFairness ==
    /\ WF_vars(\E l \in Lookups : CacheReadReturns(l[1], l[2], TRUE))
    /\ WF_vars(\E l \in Lookups : \E answer \in GeoAnswers : ApiReturns(l[1], l[2], answer))
    /\ WF_vars(\E w \in BagToSet(pendingStores) : \E writeOk \in BOOLEAN : StoreSettles(w, writeOk))

SpecGeoLive == SpecGeo /\ GeoFairness

(* SpecCache: the hook and the cache client for one address, with every
   outcome of the cache read, the API call and the cache write, while days
   pass. *)
InitCache ==
    /\ HookInit
    /\ cache \in InitCaches
    /\ DashIdle
    /\ SdkIdle
    /\ EnvoisIdle
    /\ AppIdle

NextCache ==
    \/ \E new \in CacheLists : SetAddresses(new)
    \/ Unmount
    \/ \E l \in Lookups : \E readOk \in BOOLEAN : CacheReadReturns(l[1], l[2], readOk)
    \/ \E l \in Lookups : \E answer \in ApiAnswers : ApiReturns(l[1], l[2], answer)
    \/ \E w \in BagToSet(pendingStores) : \E writeOk \in BOOLEAN : StoreSettles(w, writeOk)
    \/ Tick

SpecCache == InitCache /\ [][NextCache]_vars

(* SpecDash: the Dashboard under logins and logouts, with every order of
   arrival of the profile and of the fetched data. *)
InitDash ==
    /\ HookInit
    /\ cache = [k \in CacheKeys |-> NoDoc]
    /\ DashIdle
    /\ SdkIdle
    /\ EnvoisIdle
    /\ AppIdle

NextDash ==
    \/ \E u \in Users \cup {NoUser} : UserChanges(u)
    \/ TriggerRerender
    \/ \E i \in 1..Len(loads) : \E userProfile \in Profiles : ProfileReturns(i, userProfile)
    \/ \E i \in 1..Len(loads) : \E f \in Fetched : DataReturns(i, f)

SpecDash == InitDash /\ [][NextDash]_vars

(* SpecTickets: the two ticket readers called with every sector list, count
   and set of failing reads, over several contents of the sector collections. *)
InitTickets ==
    /\ HookInit
    /\ cache = [k \in CacheKeys |-> NoDoc]
    /\ DashIdle
    /\ tickets \in TicketStores
    /\ sdk = NoCall
    /\ EnvoisIdle
    /\ AppIdle

NextTickets ==
    \/ \E count \in 1..MaxCount : \E userSectors \in SectorArguments : \E failing \in Failures :
          CallGetRecentTicketsSdk(count, userSectors, failing)
    \/ \E count \in 1..MaxCount : \E sectors \in SectorArguments : \E failing \in Failures :
          CallGetRecentTicketsForSectors(sectors, count, failing)

SpecTickets == InitTickets /\ [][NextTickets]_vars

(* SpecCounts: getTotalTicketCountSdk called with every sector list, over
   every store and every set of failing counts. *)
NextCounts ==
    \E userSectors \in SectorArguments : \E failing \in CountFailures :
        CallGetTotalTicketCountSdk(userSectors, failing)

SpecCounts == InitTickets /\ [][NextCounts]_vars

(* SpecEnvois: the shipments page under changes of the fetched collection,
   the sector filter and the search term. *)
InitEnvois ==
    /\ HookInit
    /\ cache = [k \in CacheKeys |-> NoDoc]
    /\ DashIdle
    /\ SdkIdle
    /\ EnvoisIdle
    /\ AppIdle

NextEnvois ==
    \/ \E shipments \in ShipmentLists : SetAllShipments(shipments)
    \/ \E sector \in SectorChoices : SetSelectedSector(sector)
    \/ \E term \in SearchTerms : SetSearchTerm(term)

SpecEnvois == InitEnvois /\ [][NextEnvois]_vars

---------------------------------------------------------------------------
(* Claims about the geocoding orchestrator *)

(* SpecFalsy: the hook under lists that hold a falsy entry.  The cache starts
   empty and its reads answer; the API gives a result, no result or an HTTP
   401. *)
InitFalsy ==
    /\ HookInit
    /\ cache = [k \in CacheKeys |-> NoDoc]
    /\ DashIdle
    /\ SdkIdle
    /\ EnvoisIdle
    /\ AppIdle

NextFalsy ==
    \/ \E new \in FalsyLists : SetAddresses(new)
    \/ Unmount
    \/ \E l \in Lookups : CacheReadReturns(l[1], l[2], TRUE)
    \/ \E l \in Lookups : \E answer \in GeoAnswers : ApiReturns(l[1], l[2], answer)
    \/ \E w \in BagToSet(pendingStores) : \E writeOk \in BOOLEAN : StoreSettles(w, writeOk)

SpecFalsy == InitFalsy /\ [][NextFalsy]_vars

(* SpecNormalize: normalizeAddress applied to any address string of up to
   MaxLen characters, and then to its own result. *)
InitNormalize ==
    /\ HookInit
    /\ cache = [k \in CacheKeys |-> NoDoc]
    /\ DashIdle
    /\ SdkIdle
    /\ EnvoisIdle
    /\ typed \in AddressStrings
    /\ normKey = Undefined
    /\ normAgain = Undefined
    /\ AuthIdle
    /\ AdminIdle

NextNormalize ==
    \/ CallNormalizeAddress
    \/ CallNormalizeAddressAgain

SpecNormalize == InitNormalize /\ [][NextNormalize]_vars

(* SpecApp: the root App under sign-ins and sign-outs, with every order of
   the answers of getUserProfile. *)
InitApp ==
    /\ HookInit
    /\ cache = [k \in CacheKeys |-> NoDoc]
    /\ DashIdle
    /\ SdkIdle
    /\ EnvoisIdle
    /\ AppIdle

NextApp ==
    \/ \E fu \in AppUsers \cup {NoUser} : AuthStateChanged(fu)
    \/ \E i \in 1..Len(profileFetches) : \E readOk \in BOOLEAN : GetUserProfileReturns(i, readOk)

SpecApp == InitApp /\ [][NextApp]_vars

(* SpecAdmin: the /admin route under sign-ins of the administrator u1 and
   sign-outs, edits of users and signups (which sign the new user in), with every order and outcome of the Firestore and Auth
   answers. *)
NextAdmin ==
    \/ \E fu \in {"u1", NoUser} : AuthStateChanged(fu)
    \/ \E i \in 1..Len(profileFetches) : \E readOk \in BOOLEAN : GetUserProfileReturns(i, readOk)
    \/ AdminMount
    \/ \E i \in 1..Len(adminCalls) : \E readOk \in BOOLEAN : GetAllUserProfilesReturns(i, readOk)
    \/ \E k \in 1..Len(admin.users) : HandleOpenEditModal(k)
    \/ HandleCloseEditModal
    \/ \E updatedUser \in RoleEdits(admin.editingUser) : HandleSaveUser(updatedUser)
    \/ \E i \in 1..Len(adminCalls) : \E writeOk \in BOOLEAN : UpdateUserProfileReturns(i, writeOk)
    \/ HandleSignup
    \/ \E i \in 1..Len(adminCalls) : \E created \in BOOLEAN : CreateUserReturns(i, created)
    \/ \E i \in 1..Len(adminCalls) : \E writeOk \in BOOLEAN : CreateUserProfileReturns(i, writeOk)

SpecAdmin == InitApp /\ [][NextAdmin]_vars

(* SpecSave: the admin panel of the signed-in administrator u1 once the user
   list is loaded, under the edit modal alone: opening, closing, saving, and
   the answers of updateDoc and of the list reload. *)
InitSave ==
    /\ HookInit
    /\ cache = [k \in CacheKeys |-> NoDoc]
    /\ DashIdle
    /\ SdkIdle
    /\ EnvoisIdle
    /\ NormIdle
    /\ firebaseUser = "u1"
    /\ appUser = "u1"
    /\ appProfile = getUserProfile("u1", UserDocs, TRUE)
    /\ loadingAuth = FALSE
    /\ profileFetches = <<[uid |-> "u1", pc |-> "done"]>>
    /\ usersColl = UserDocs
    /\ admin = [AdminInitial EXCEPT !.mounted = TRUE, !.isAuthorized = JsBool(TRUE),
                                    !.users = getAllUserProfilesSdk(UserDocs)]
    /\ adminCalls = <<>>
    /\ saves = 0

NextSave ==
    \/ \E k \in 1..Len(admin.users) : HandleOpenEditModal(k)
    \/ HandleCloseEditModal
    \/ \E updatedUser \in Edits(admin.editingUser) : HandleSaveUser(updatedUser)
    \/ \E i \in 1..Len(adminCalls) : \E writeOk \in BOOLEAN : UpdateUserProfileReturns(i, writeOk)
    \/ \E i \in 1..Len(adminCalls) : \E readOk \in BOOLEAN : GetAllUserProfilesReturns(i, readOk)

SpecSave == InitSave /\ [][NextSave]_vars

Batches == 1..Len(batches)

\* Batch b finishes in this step (the code after Promise.allSettled runs)
Finishes(b) == batches[b].pc = "running" /\ batches'[b].pc # "running"

\* The hook's return value: { coordinates: coordinatesMap, isLoading: error }
HookResult ==
    [coordinates |-> coordinatesMap,
     isLoading   |-> IF error = <<>> THEN JsNull ELSE JsString(error)]

\* A lookup of the current addresses is outstanding
Busy ==
    \E l \in Lookups : /\ batches[l[1]].pc = "running"
                       /\ ~batches[l[1]].aborted
                       /\ batches[l[1]].lk[l[2]].phase # "done"

\* C1: a batch that was superseded (aborted by the effect cleanup, before or
\* in the step that settles it) never writes the coordinates map: it ends in
\* the skipping branch, a step of an aborted batch leaves the map as it is,
\* and the step that supersedes a batch changes the map only by emptying it
\* for an empty addresses list.
C1_SupersededBatchNeverWrites ==
    [][\A b \in Batches :
          /\ (Finishes(b) /\ (batches[b].aborted \/ addresses' # addresses \/ mounted' # mounted))
                => /\ batches'[b].pc = "skipped"
                   /\ \/ coordinatesMap' = coordinatesMap
                      \/ coordinatesMap' = EmptyMap /\ addresses' = <<>>
          /\ (batches[b].pc = "running" /\ batches[b].aborted /\ batches'[b] # batches[b])
                => coordinatesMap' = coordinatesMap]_vars

\* A superseded batch holds a result (coordinates or null) that the map lacks
C1_Witness ==
    \E l \in Lookups :
        LET b == batches[l[1]] IN
        /\ b.pc = "running" /\ b.aborted
        /\ b.lk[l[2]].phase = "done" /\ b.lk[l[2]].result # Undefined
        /\ b.lk[l[2]].key \notin DOMAIN coordinatesMap

\* C18: a failed lookup of one address does not abort its batch: the step in
\* which the API call of one lookup fails leaves the batch live and its other
\* lookups as they were, and when a batch that was not superseded completes,
\* every lookup of the batch has its own outcome in the result map (the
\* coordinates of the API for a lookup that succeeded, null for one that
\* failed).
C18_FailedLookupKeepsBatch ==
    [][\A b \in Batches :
          /\ (batches[b].pc = "running" /\ ~batches[b].aborted /\ addresses' = addresses
                 /\ mounted' = mounted)
                => \A i \in 1..Len(batches[b].lk) :
                      (batches[b].lk[i].api # "error" /\ batches'[b].lk[i].api = "error")
                         => /\ ~batches'[b].aborted
                            /\ \A j \in 1..Len(batches[b].lk) :
                                  j # i => batches'[b].lk[j] = batches[b].lk[j]
          /\ (Finishes(b) /\ batches'[b].pc = "applied")
                => \A i \in 1..Len(batches'[b].lk) :
                      LET lk == batches'[b].lk[i] IN
                      /\ lk.key \in DOMAIN coordinatesMap'
                      /\ coordinatesMap'[lk.key] = lk.result
                      /\ lk.api = "error" => lk.result = NullCoord
                      /\ lk.api = "zero" => lk.result = NullCoord
                      /\ lk.api = "ok" => lk.result = ApiCoord]_vars

\* A batch of two addresses has completed: the lookup that failed is in the
\* map as null, the one that succeeded with its coordinates
C18_Witness ==
    \E b \in Batches :
        /\ batches[b].pc = "applied" /\ Len(batches[b].lk) = 2
        /\ \E i, j \in 1..2 :
              /\ batches[b].lk[i].api = "error" /\ batches[b].lk[j].api = "ok"
              /\ batches[b].lk[i].key \in DOMAIN coordinatesMap
              /\ batches[b].lk[j].key \in DOMAIN coordinatesMap
              /\ coordinatesMap[batches[b].lk[i].key] = NullCoord
              /\ coordinatesMap[batches[b].lk[j].key] = ApiCoord
        /\ error # <<>>

\* C19: falsy entries of the addresses list are dropped on every path of a
\* batch: no lookup is started for one, none enters processingRef or the
\* result map, and none makes a batch fail (no TypeError is thrown, neither
\* on the no-new-address path nor in the final clean-up of processingRef).
C19_FalsyEntriesAreDropped ==
    /\ thrown = {}
    /\ \A l \in Lookups : ~Falsy(batches[l[1]].lk[l[2]].key)
    /\ \A k \in processingRef \cup DOMAIN coordinatesMap : ~Falsy(k)

\* C21: a response of the geocoding API without results resolves the address
\* to null and adds nothing to the error string: the step in which such a
\* response arrives leaves the error state as it is and gives the lookup the
\* result null, and when the batch completes unsuperseded the key is in the
\* result map with null.
C21_ZeroResultIsNullWithoutError ==
    [][\A l \in Lookups :
          (l[2] <= Len(batches'[l[1]].lk)) =>
          LET old == batches[l[1]].lk[l[2]]
              new == batches'[l[1]].lk[l[2]]
          IN /\ (old.api # "zero" /\ new.api = "zero")
                  => /\ error' = error
                     /\ new.result = NullCoord
             /\ (Finishes(l[1]) /\ batches'[l[1]].pc = "applied" /\ new.api = "zero")
                  => /\ new.key \in DOMAIN coordinatesMap'
                     /\ coordinatesMap'[new.key] = NullCoord]_vars

\* A batch has completed with a zero-result response: its key is in the map
\* with null and the error state is empty
C21_Witness ==
    \E l \in Lookups :
        /\ batches[l[1]].pc = "applied"
        /\ batches[l[1]].lk[l[2]].api = "zero"
        /\ batches[l[1]].lk[l[2]].key \in DOMAIN coordinatesMap
        /\ coordinatesMap[batches[l[1]].lk[l[2]].key] = NullCoord
        /\ error = <<>>

\* The lookups whose request to the external geocoding API for key k is
\* outstanding (sent, neither answered nor aborted)
Outstanding(k) ==
    {l \in Lookups : /\ batches[l[1]].pc = "running"
                     /\ batches[l[1]].lk[l[2]].key = k
                     /\ batches[l[1]].lk[l[2]].phase = "api"}

\* C3: at no time are two requests to the external geocoding API outstanding
\* for the same normalized key, over all batches, superseded ones included.
C3_OneLookupPerKey == \A k \in CacheKeys : Cardinality(Outstanding(k)) <= 1

\* A batch superseded while it looked up key "a" is still unsettled (its
\* cache read is pending) while the batch after it has its API request for
\* "a" outstanding: the list was emptied and refilled.
C3_Witness ==
    \E b \in Batches : \E c \in Batches :
        /\ b < c
        /\ batches[b].pc = "running" /\ batches[b].aborted
        /\ \E i \in 1..Len(batches[b].lk) : batches[b].lk[i].key = <<"a">>
        /\ batches[c].pc = "running" /\ ~batches[c].aborted
        /\ Outstanding(<<"a">>) # {}

\* C4: when the code after Promise.allSettled has run for a batch, on either
\* branch, none of the batch's keys (currentProcessing) is in processingRef.
C4_KeysReleased ==
    [][\A b \in Batches : Finishes(b) => batches[b].cur \cap processingRef' = {}]_vars

\* One batch was cancelled, another completed, and processingRef is empty
C4_Witness ==
    /\ \E b \in Batches : batches[b].pc = "skipped"
    /\ \E b \in Batches : batches[b].pc \in {"applied", "forgotten"}
    /\ processingRef = {}

\* The keys whose lookup, in a batch still on record, ended in an API error
ErroredKeys == {batches[l[1]].lk[l[2]].key : l \in {m \in Lookups : batches[m[1]].lk[m[2]].api = "error"}}

NonFalsyKeys(addrs) == {normalizeAddress(addrs[i]) : i \in {j \in 1..Len(addrs) : ~Falsy(addrs[j])}}

\* C5: when a lookup of key k has ended in a transport/HTTP error and the hook
\* is then given a list that contains k, a new batch starts and looks k up
\* again.
C5_RetryAfterError ==
    [][addresses' # addresses =>
         \A k \in ErroredKeys \cap NonFalsyKeys(addresses') :
             /\ Len(batches') = Len(batches) + 1
             /\ k \in batches'[Len(batches')].cur]_vars

\* C23: if the addresses list stops changing (the hook stays mounted with
\* list q), every non-falsy address of q eventually has an entry in the
\* coordinates map, also when it was in flight in the batch that q
\* superseded.
C23_FinalListIsResolved ==
    \A q \in GeoLists :
        <>[](mounted /\ addresses = q) => <>[](NonFalsyKeys(q) \subseteq DOMAIN coordinatesMap)

\* C6: the isLoading the hook returns is the boolean "a lookup of the current
\* addresses is outstanding".
C6_BusyFlag == HookResult.isLoading = JsBool(Busy)

\* C7: no message occurs twice in the aggregate error string
C7_DistinctMessages ==
    \A i \in 1..Len(error) : \A j \in 1..Len(error) : i # j => error[i] # error[j]

---------------------------------------------------------------------------
(* Claims about the geocode cache *)

\* The lookup l after the step; a batch cancelled before the step is dropped
\* with its records when its last lookup settles
LookupAfter(l) ==
    IF batches'[l[1]].lk = <<>> THEN [key |-> batches[l[1]].lk[l[2]].key, phase |-> "done",
                                       seen |-> "dropped", api |-> "none", result |-> Undefined]
    ELSE batches'[l[1]].lk[l[2]]

\* Lookup l leaves its cache read in this step
CacheReadDone(l) ==
    /\ batches[l[1]].pc = "running"
    /\ batches[l[1]].lk[l[2]].phase = "cache"
    /\ LookupAfter(l).phase # "cache"

\* The age in days of a dated cache document
Age(doc) == now - doc.timestamp.day

\* The cache document of key k is usable: undated, or written at most
\* GEOCODE_CACHE_EXPIRY_DAYS days ago
Fresh(k) ==
    /\ cache[k].exists
    /\ cache[k].timestamp.isTimestamp => Age(cache[k]) <= GEOCODE_CACHE_EXPIRY_DAYS

\* C8: when the cache read of a lookup succeeds and the key has a non-expired
\* entry, the lookup ends with the cached coordinates and no request to the
\* geocoding API; a lookup that hit the cache never has an API request; and
\* when the batch is applied the result map holds the cached coordinates.
C8_CachedKeyNeedsNoApiCall ==
    [][/\ \A l \in Lookups :
            (CacheReadDone(l) /\ Fresh(batches[l[1]].lk[l[2]].key)
                /\ LookupAfter(l).seen \notin {"error", "dropped"})
              => /\ LookupAfter(l).seen = "hit"
                 /\ LookupAfter(l).phase = "done"
                 /\ LookupAfter(l).api = "none"
                 /\ LookupAfter(l).result =
                       <<cache[LookupAfter(l).key].latitude, cache[LookupAfter(l).key].longitude>>
       /\ \A b \in Batches :
            (Finishes(b) /\ batches'[b].pc = "applied")
              => \A i \in 1..Len(batches'[b].lk) :
                    batches'[b].lk[i].seen = "hit"
                      => /\ batches'[b].lk[i].api = "none"
                         /\ batches'[b].lk[i].key \in DOMAIN coordinatesMap'
                         /\ coordinatesMap'[batches'[b].lk[i].key] = batches'[b].lk[i].result]_vars

\* A batch was applied whose lookup hit the cache: the map holds the cached
\* coordinates and no API request was made
C8_Witness ==
    \E l \in Lookups :
        LET lk == batches[l[1]].lk[l[2]] IN
        /\ batches[l[1]].pc = "applied"
        /\ lk.seen = "hit" /\ lk.api = "none" /\ lk.result = OldCoord
        /\ lk.key \in DOMAIN coordinatesMap /\ coordinatesMap[lk.key] = OldCoord

\* C9: a cache read that succeeds on an entry written more than
\* GEOCODE_CACHE_EXPIRY_DAYS days ago is a miss, and the lookup, unless its
\* batch was superseded, sends a fresh request to the geocoding API; a read
\* that succeeds on an entry within the window is a hit.
C9_ExpiredEntryIsRefetched ==
    [][\A l \in Lookups :
          LET k == batches[l[1]].lk[l[2]].key
              after == LookupAfter(l)
          IN (CacheReadDone(l) /\ cache[k].exists /\ cache[k].timestamp.isTimestamp
                /\ after.seen \notin {"error", "dropped"})
               => IF Age(cache[k]) > GEOCODE_CACHE_EXPIRY_DAYS
                  THEN /\ after.seen = "null"
                       /\ after.result # <<cache[k].latitude, cache[k].longitude>>
                       /\ ~batches[l[1]].aborted => (after.phase = "api" /\ after.api = "called")
                  ELSE /\ after.seen = "hit"
                       /\ after.result = <<cache[k].latitude, cache[k].longitude>>]_vars

\* An API request is outstanding for a key whose cache entry has expired
C9_Witness ==
    \E l \in Lookups :
        LET lk == batches[l[1]].lk[l[2]] IN
        /\ lk.seen = "null" /\ lk.phase = "api" /\ lk.api = "called"
        /\ cache[lk.key].exists /\ cache[lk.key].timestamp.isTimestamp
        /\ Age(cache[lk.key]) > GEOCODE_CACHE_EXPIRY_DAYS

\* A fire-and-forget storeGeocode settles in this step
StoreSettled == BagCardinality(pendingStores') < BagCardinality(pendingStores)

\* C10: the settling of a cache write, failed or not, changes neither the
\* aggregate error nor the result map nor any lookup; and a batch that is
\* applied puts the coordinates the API returned in the result map.
C10_StoreFailureIsSilent ==
    [][/\ StoreSettled => /\ error' = error
                          /\ coordinatesMap' = coordinatesMap
                          /\ isLoading' = isLoading
                          /\ batches' = batches
       /\ \A b \in Batches :
            (Finishes(b) /\ batches'[b].pc = "applied")
              => \A i \in 1..Len(batches'[b].lk) :
                    batches'[b].lk[i].api = "ok"
                      => /\ batches'[b].lk[i].key \in DOMAIN coordinatesMap'
                         /\ coordinatesMap'[batches'[b].lk[i].key] = ApiCoord]_vars

\* The API returned coordinates, the cache write has failed (nothing is
\* pending and the cache lacks the coordinates), the map holds them and no
\* error was recorded
C10_Witness ==
    \E l \in Lookups :
        LET lk == batches[l[1]].lk[l[2]] IN
        /\ batches[l[1]].pc = "applied" /\ lk.api = "ok"
        /\ lk.key \in DOMAIN coordinatesMap /\ coordinatesMap[lk.key] = ApiCoord
        /\ pendingStores = EmptyBag
        /\ ~(cache[lk.key].exists /\ cache[lk.key].latitude = ApiCoord[1])
        /\ error = <<>>

---------------------------------------------------------------------------
(* Claims about the Dashboard *)

\* Run i of loadDashboardData was superseded: a later run started, or the
\* data effect ran for another user
Superseded(i) == i < Len(loads) \/ loads[i].user # user

\* C2: when a run of loadDashboardData that was superseded (by a newer run
\* or by logout) gets its data, it leaves the displayed state (counts,
\* evolution, recent lists, loading flags) as the newer run set it.
C2_SupersededLoadKeepsState ==
    [][\A i \in 1..Len(loads) :
          (Superseded(i) /\ loads[i].pc = "data" /\ loads'[i].pc = "done")
             => dash' = dash]_vars

---------------------------------------------------------------------------
(* Claims about the ticket readers *)

\* The sector collections with those whose read fails taken as empty
WithoutFailing(store, failing) == [c \in Collections |-> IF c \in failing THEN <<>> ELSE store[c]]

\* C11: getRecentTicketsSdk contains the failure of one sector's read: it
\* returns what it returns when the failing sectors are empty and every read
\* succeeds, so the tickets of the other accessible sectors are still merged.
C11_FailedSectorIsContained ==
    sdk.fn = "getRecentTicketsSdk"
       => sdk.result = getRecentTicketsSdk(sdk.count, sdk.sectors,
                                           WithoutFailing(tickets, sdk.failing), {})

\* The time of a ticket's date; a date that is no Date counts as the epoch
TicketTime(ticket) == IF ticket.date.t = "Date" THEN ticket.date.time ELSE 0

\* C12: what a ticket reader (getRecentTicketsSdk, getRecentTicketsForSectors)
\* returns has at most `count` tickets and is in descending order of ticket
\* date across all sectors.
C12_SortedAndBounded ==
    sdk.fn # "none"
       => /\ Len(sdk.result) <= sdk.count
          /\ \A i \in 1..Len(sdk.result) : \A j \in 1..Len(sdk.result) :
                i < j => TicketTime(sdk.result[i]) >= TicketTime(sdk.result[j])

\* A reader merged two sectors that hold more than `count` tickets: the
\* result is full and ends with a ticket of another sector than it starts with
C12_Witness ==
    /\ sdk.fn # "none" /\ sdk.count >= 2
    /\ Len(sdk.result) = sdk.count
    /\ sdk.result[1].secteur # sdk.result[sdk.count].secteur
    /\ TicketTime(sdk.result[1]) > TicketTime(sdk.result[sdk.count])
    /\ \E c \in Collections : Len(tickets[c]) > sdk.count

\* C13: every ticket getRecentTicketsSdk returns carries as secteur the
\* sector collection it was read from (an accessible sector holding a
\* document of that id), whatever secteur the document stores, and no two
\* tickets of the result are the same value.
C13_SectorTagKept ==
    sdk.fn = "getRecentTicketsSdk"
       => /\ \A i \in 1..Len(sdk.result) :
                LET ticket == sdk.result[i] IN
                /\ Includes(sdk.sectors.items, ticket.secteur)
                /\ Includes(TICKET_SECTORS, ticket.secteur)
                /\ \E k \in 1..Len(tickets[ticket.secteur]) :
                      LET doc == tickets[ticket.secteur][k] IN
                      /\ doc.id = ticket.id
                      /\ \/ doc.data.date = ticket.date
                         \/ ticket.date.t = "Date" /\ doc.data.date = Timestamp(ticket.date.time)
          /\ \A i \in 1..Len(sdk.result) : \A j \in 1..Len(sdk.result) :
                i # j => sdk.result[i] # sdk.result[j]

\* The result holds two tickets of the same id read from different sectors,
\* and a ticket whose document stores another sector than its collection
C13_Witness ==
    /\ sdk.fn = "getRecentTicketsSdk"
    /\ \E i \in 1..Len(sdk.result) : \E j \in 1..Len(sdk.result) :
          /\ sdk.result[i].id = sdk.result[j].id
          /\ sdk.result[i].secteur # sdk.result[j].secteur
    /\ \E i \in 1..Len(sdk.result) : \E k \in 1..Len(tickets[sdk.result[i].secteur]) :
          LET doc == tickets[sdk.result[i].secteur][k] IN
          /\ doc.id = sdk.result[i].id
          /\ "secteur" \in DOMAIN doc.data
          /\ doc.data.secteur # sdk.result[i].secteur

\* The sectors getRecentTicketsSdk reads for the sector list `arg`
AccessibleSet(arg) ==
    IF arg.isArray THEN {c \in Collections : Includes(TICKET_SECTORS, c) /\ Includes(arg.items, c)}
    ELSE {}

\* Every document of the sectors S, with the time of its date (the epoch for
\* a date that is no Timestamp)
AllDocs(store, S) ==
    UNION {{[sector |-> c, id |-> store[c][i].id,
             time |-> IF store[c][i].data.date.t = "Timestamp"
                      THEN store[c][i].data.date.day ELSE 0] : i \in 1..Len(store[c])} : c \in S}

\* The result holds `count` of the documents in `all` (all of them if there
\* are fewer), and no document left out is more recent than one it holds
IsTopN(result, all, count) ==
    LET got == {[sector |-> result[i].secteur, id |-> result[i].id,
                 time |-> TicketTime(result[i])] : i \in 1..Len(result)}
    IN /\ Len(result) = (IF count < Cardinality(all) THEN count ELSE Cardinality(all))
       /\ Cardinality(got) = Len(result)
       /\ got \subseteq all
       /\ \A d \in all \ got : \A g \in got : d.time <= g.time

\* Every ticket of the sectors S is dated with a Timestamp
AllTimestamps(store, S) ==
    \A c \in S : \A i \in 1..Len(store[c]) : store[c][i].data.date.t = "Timestamp"

\* C24 as stated: when no sector read fails, getRecentTicketsSdk returns the
\* `count` most recent tickets of all tickets of the accessible sectors
\* (all of them if there are fewer).
C24_GlobalTopN_AsStated ==
    (sdk.fn = "getRecentTicketsSdk" /\ sdk.failing \cap AccessibleSet(sdk.sectors) = {})
       => IsTopN(sdk.result, AllDocs(tickets, AccessibleSet(sdk.sectors)), sdk.count)

\* C24, for tickets dated with a Timestamp: when no sector read fails and
\* every ticket of the accessible sectors has a Timestamp date,
\* getRecentTicketsSdk returns the `count` most recent tickets of all tickets
\* of the accessible sectors (all of them if there are fewer): no ticket of
\* the global top is lost by reading only `count` tickets per sector.
C24_GlobalTopN ==
    (/\ sdk.fn = "getRecentTicketsSdk"
     /\ sdk.failing \cap AccessibleSet(sdk.sectors) = {}
     /\ AllTimestamps(tickets, AccessibleSet(sdk.sectors)))
       => IsTopN(sdk.result, AllDocs(tickets, AccessibleSet(sdk.sectors)), sdk.count)

\* Two sectors that each hold more than `count` tickets were read without a
\* failure: the result is full, from both sectors, and a ticket of each
\* sector's own top `count` was left out
C24_Witness ==
    /\ sdk.fn = "getRecentTicketsSdk" /\ sdk.failing = {} /\ sdk.count >= 2
    /\ Cardinality(AccessibleSet(sdk.sectors)) = 2
    /\ AllTimestamps(tickets, AccessibleSet(sdk.sectors))
    /\ \A c \in AccessibleSet(sdk.sectors) :
          /\ Len(tickets[c]) > sdk.count
          /\ \E i \in 1..Len(sdk.result) : sdk.result[i].secteur = c
          /\ \E k \in 1..sdk.count :
                \A i \in 1..Len(sdk.result) :
                    sdk.result[i].secteur = c => sdk.result[i].id # tickets[c][k].id
    /\ Len(sdk.result) = sdk.count

\* The sum of the server counts of the sectors S
RECURSIVE CountOf(_, _)
CountOf(store, S) ==
    IF S = {} THEN 0
    ELSE LET c == CHOOSE x \in S : TRUE IN Len(store[c]) + CountOf(store, S \ {c})

\* C26: getTotalTicketCountSdk returns the sum of the server counts of
\* exactly the sectors that are in the user's list and in CHR, HACCP, Kezia,
\* Tabac, having asked the server for those and no other; 0 without any read
\* when there is no such sector; null when the count of one of them fails.
C26_TotalCountOrNull ==
    (sdk.fn = "getTotalTicketCountSdk" /\ sdk.sectors.isArray)
       => LET S == AccessibleSet(sdk.sectors) IN
          /\ {sdk.reads[i] : i \in 1..Len(sdk.reads)} = S
          /\ Len(sdk.reads) = Cardinality(S)
          /\ S = {} => sdk.result = JsNumber(0)
          /\ (S # {} /\ S \cap sdk.failing = {}) => sdk.result = JsNumber(CountOf(tickets, S))
          /\ S \cap sdk.failing # {} => sdk.result = JsNull

\* The count of one of two accessible sectors failed while the other sector
\* holds tickets: the result is null
C26_Witness ==
    /\ sdk.fn = "getTotalTicketCountSdk" /\ sdk.sectors.isArray
    /\ Cardinality(AccessibleSet(sdk.sectors)) = 2
    /\ Cardinality(AccessibleSet(sdk.sectors) \cap sdk.failing) = 1
    /\ \E c \in AccessibleSet(sdk.sectors) \ sdk.failing : Len(tickets[c]) > 0
    /\ sdk.result = JsNull

---------------------------------------------------------------------------
(* Claims about the Dashboard's evolution figures *)

Metrics == {"ticketCount", "shipmentCount", "clientCount"}

\* The live count fetched for a metric
LiveCount(f, metric) ==
    CASE metric = "ticketCount"   -> f.liveTicketCount
      [] metric = "shipmentCount" -> f.liveShipmentCount
      [] metric = "clientCount"   -> f.liveClientCount

\* The latest snapshot exists and holds a value for the metric
SnapshotHas(f, metric) ==
    /\ f.latestSnapshotResult # <<>>
    /\ f.latestSnapshotResult[1][metric] # JsUndefined

\* Run i of loadDashboardData gets its data and sets the state in this step
ShowsData(i) == loads[i].pc = "data" /\ loads'[i].pc = "done"

\* C14: when a run of loadDashboardData sets the state, the evolution of each
\* metric is, from that metric's live count and snapshot value alone: live
\* minus snapshot when the live count is non-null and the snapshot has the
\* value, 0 when the live count is non-null and there is no snapshot value,
\* null when the live count is null.
C14_EvolutionPerMetric ==
    [][\A i \in 1..Len(loads) : ShowsData(i) =>
          \A metric \in Metrics :
             LET f == loads'[i].fetched
                 live == LiveCount(f, metric)
             IN dash'.evolution[metric] =
                  (IF live = JsNull THEN JsNull
                   ELSE IF SnapshotHas(f, metric)
                        THEN JsNumber(live.v - f.latestSnapshotResult[1][metric].v)
                        ELSE JsNumber(0))]_vars

\* The Dashboard shows the three cases at once: 0 for the tickets for want
\* of a snapshot value, null for the shipments whose live count is null, and
\* live minus snapshot for the clients
C14_Witness ==
    /\ \E i \in 1..Len(loads) :
          /\ loads[i].pc = "done"
          /\ ~SnapshotHas(loads[i].fetched, "ticketCount")
          /\ SnapshotHas(loads[i].fetched, "clientCount")
          /\ loads[i].fetched.liveShipmentCount = JsNull
    /\ dash.liveTicketCount = JsNumber(7)
    /\ dash.evolution = [ticketCount |-> JsNumber(0), shipmentCount |-> JsNull,
                         clientCount |-> JsNumber(1)]

\* C30: whatever the sign-ins, sign-outs and refetch triggers were, when every
\* run of loadDashboardData that started fetching has settled, loadingStats,
\* loadingTickets and loadingShipments are all false.
C30_SettledMeansNotLoading ==
    (\A i \in 1..Len(loads) : loads[i].pc = "done") =>
        /\ ~dash.loadingStats
        /\ ~dash.loadingTickets
        /\ ~dash.loadingShipments

\* Two overlapping runs for a signed-in user have both settled
C30_Witness ==
    /\ user # NoUser
    /\ Len(loads) >= 2
    /\ \A i \in 1..Len(loads) : loads[i].pc = "done"
    /\ loads[1].fetched # loads[2].fetched
    /\ seenTrigger = <<user, fetchTrigger>>
    /\ ~dash.loadingStats /\ ~dash.loadingTickets /\ ~dash.loadingShipments

---------------------------------------------------------------------------
(* Claims about the shipments page *)

\* The shipments that reach the grouping step
Filtered == FilterShipments(allShipments, selectedSector, searchTerm)

SameLetter(c, d) == c = d \/ {c, d} = {"a", "A"} \/ {c, d} = {"b", "B"}

\* str contains sub when case is ignored
ContainsIgnoringCase(str, sub) ==
    \E i \in 1..(Len(str) + 1) :
        /\ i + Len(sub) - 1 <= Len(str)
        /\ \A k \in 1..Len(sub) : SameLetter(str[i + k - 1], sub[k])

Elements(seq) == {seq[i] : i \in 1..Len(seq)}

\* C15: the shipments that reach the grouping step are exactly those of the
\* selected sector (all of them when no sector is selected) whose nomClient
\* or codeClient contains the trimmed search term, case ignored (all of them
\* when the trimmed term is empty), in their order in the collection.
C15_FilterBySectorAndTerm ==
    Filtered = SelectSeq(allShipments, LAMBDA sh :
                   /\ selectedSector = "" \/ sh.secteur = selectedSector
                   /\ \/ Trim(searchTerm) = <<>>
                      \/ ContainsIgnoringCase(sh.nomClient, Trim(searchTerm))
                      \/ ContainsIgnoringCase(sh.codeClient, Trim(searchTerm)))

\* A sector and a term with blanks around it are set, both remove shipments,
\* and a shipment is kept whose name matches the term only when case is ignored
C15_Witness ==
    /\ selectedSector # "" /\ Trim(searchTerm) # <<>> /\ Trim(searchTerm) # searchTerm
    /\ Filtered # <<>>
    /\ \E sh \in Elements(allShipments) : sh.secteur = selectedSector /\ sh \notin Elements(Filtered)
    /\ \E sh \in Elements(allShipments) : sh.secteur # selectedSector
    /\ \E sh \in Elements(Filtered) :
          /\ ~StringIncludes(sh.nomClient, Trim(searchTerm))
          /\ ~StringIncludes(sh.codeClient, Trim(searchTerm))

\* The client-identity key: the name, else the code, else the unknown bucket
IdentityKey(shipment) ==
    IF shipment.nomClient # <<>> THEN shipment.nomClient
    ELSE IF shipment.codeClient # <<>> THEN shipment.codeClient
    ELSE ClientInconnu

\* C16: every shipment shown is grouped under its client-identity key: the
\* client name when present, otherwise the client code, otherwise the one
\* unknown bucket.
C16_GroupedByIdentityKey ==
    \A g \in 1..Len(clientGroups) :
        \A sh \in Elements(clientGroups[g].members) : clientGroups[g].key = IdentityKey(sh)

\* C17: the client groups are listed in alphabetical order of their keys, no
\* key twice, and the members of each group are the shipments of that group
\* in the order they have in the list that was grouped.
C17_GroupsAlphabeticalMembersInOrder ==
    /\ \A g \in 1..Len(clientGroups) : \A h \in 1..Len(clientGroups) :
          g < h => /\ clientGroups[g].key # clientGroups[h].key
                   /\ ~StrLess(LowerCase(clientGroups[h].key), LowerCase(clientGroups[g].key))
    /\ \A g \in 1..Len(clientGroups) :
          /\ clientGroups[g].members # <<>>
          /\ clientGroups[g].members =
                SelectSeq(Filtered, LAMBDA sh : sh \in Elements(clientGroups[g].members))
    /\ \A sh \in Elements(Filtered) :
          \E g \in 1..Len(clientGroups) : sh \in Elements(clientGroups[g].members)

\* The groups are listed in another order than they were met, and a group has
\* two members that other shipments separate in the list
C17_Witness ==
    /\ Len(clientGroups) >= 3
    /\ clientGroups # filteredAndGroupedShipments
    /\ \E g \in 1..Len(clientGroups) :
          /\ Len(clientGroups[g].members) >= 2
          /\ \E i \in 1..Len(Filtered) : \E j \in 1..Len(Filtered) : \E k \in 1..Len(Filtered) :
                /\ i < j /\ j < k
                /\ Filtered[i] = clientGroups[g].members[1]
                /\ Filtered[k] = clientGroups[g].members[2]
                /\ Filtered[j] \notin Elements(clientGroups[g].members)

\* C20: the sector list of the filter control holds the sectors of the full
\* fetched collection, and a step that changes the selected sector or the
\* search term, not the collection, leaves it unchanged.
C20_SectorListFromFullCollection ==
    [][/\ Elements(availableSectors(allShipments))' = {sh.secteur : sh \in Elements(allShipments')}
       /\ allShipments' = allShipments
            => availableSectors(allShipments)' = availableSectors(allShipments)]_vars

\* A sector filter and a search term hide every shipment of some sector that
\* the control still offers
C20_Witness ==
    /\ selectedSector # "" /\ Trim(searchTerm) # <<>>
    /\ Len(availableSectors(allShipments)) >= 2
    /\ \E sector \in Elements(availableSectors(allShipments)) :
          \A sh \in Elements(Filtered) : sh.secteur # sector

---------------------------------------------------------------------------
(* Claims about normalizeAddress *)

\* C22: normalizeAddress is idempotent: normalizing a normalized address gives
\* the same key, so an address and its normalized form have the same cache
\* key.
C22_NormalizeIdempotent ==
    /\ normKey # Undefined => normKey = normalizeAddress(typed)
    /\ normAgain # Undefined => normAgain = normKey

\* An address with whitespace around it was normalized twice: the first call
\* changed it to a non-empty key, the second call has answered
C22_Witness ==
    /\ Len(typed) = MaxLen /\ IsSpace(typed[1]) /\ IsSpace(typed[2])
    /\ normKey # <<>>
    /\ normAgain # Undefined

---------------------------------------------------------------------------
(* Claims about the root App *)

\* C25: in every state of the App the profile is null whenever the user is
\* null, and when both are set the profile is the one of the current user's
\* uid, also when sign-ins and sign-outs arrive while a profile fetch is in
\* flight.
C25_ProfileMatchesUser ==
    /\ appUser = NoUser => appProfile = NoProfile
    /\ (appUser # NoUser /\ appProfile # NoProfile) => appProfile.uid = appUser

---------------------------------------------------------------------------
(* Claims about the admin panel *)

\* The fields of the edit form that differ from the user being edited; two
\* sector lists differ when they do not hold the same sectors
DiffersFrom(e, updatedUser) ==
    {f \in {"displayName", "role"} : Field(updatedUser, f) # Field(e, f)}
    \cup (IF \/ Len(SecteursOrEmpty(e)) # Len(SecteursOrEmpty(updatedUser))
              \/ {SecteursOrEmpty(e)[i] : i \in 1..Len(SecteursOrEmpty(e))}
                   # {SecteursOrEmpty(updatedUser)[i] : i \in 1..Len(SecteursOrEmpty(updatedUser))}
           THEN {"secteurs"} ELSE {})

\* C27: handleSaveUser hands to updateUserProfileSdk exactly the fields among
\* displayName, role and secteurs whose value differs from the user being
\* edited, sector lists being compared without regard to order; when nothing
\* differs it starts no write, closes the modal and leaves the user list and
\* the collection as they were.
C27_SaveSendsOnlyChanges ==
    [][\A updatedUser \in Edits(admin.editingUser) :
          HandleSaveUser(updatedUser) =>
              LET changed == DiffersFrom(admin.editingUser, updatedUser)
              IN IF changed = {}
                 THEN /\ adminCalls' = adminCalls
                      /\ usersColl' = usersColl
                      /\ ~admin'.isEditModalOpen
                      /\ admin'.users = admin.users
                 ELSE /\ Len(adminCalls') = Len(adminCalls) + 1
                      /\ LET call == adminCalls'[Len(adminCalls')]
                         IN /\ call.kind = "updateUserProfileSdk"
                            /\ call.uid = admin.editingUser.uid
                            /\ DOMAIN call.data = changed
                            /\ \A f \in changed : call.data[f] = updatedUser[f]]_vars

\* A save that sends one field of the three is pending
C27_Witness ==
    /\ admin.isEditModalOpen
    /\ \E i \in 1..Len(adminCalls) :
          /\ adminCalls[i].kind = "updateUserProfileSdk"
          /\ DOMAIN adminCalls[i].data = {"role"}

\* C28: once auth loading has finished, isAuthorized of a rendered admin panel
\* is true when a user is signed in whose profile has the role admin (in any
\* case of letters) and false otherwise, also with no user signed in, so the
\* page shows the panel or the access-denied message.
C28_AccessIsDecided ==
    (admin.mounted /\ ~loadingAuth) =>
        /\ admin.isAuthorized =
              JsBool(/\ appUser # NoUser
                     /\ appProfile.exists
                     /\ LowerCase(appProfile.role.s) = LowerCase(RoleAdmin))
        /\ AdminView \in {"panel", "denied"}

\* The number of pending calls of getAllUserProfilesSdk
PendingFetches(calls) ==
    Cardinality({i \in 1..Len(calls) : calls[i].kind = "getAllUserProfilesSdk"})

\* C29: getAllUserProfilesSdk is called only in states where isAuthorized is
\* true, and the users table is rendered only while isAuthorized is true.
C29_FetchOnlyWhenAuthorized ==
    [][/\ PendingFetches(adminCalls') > PendingFetches(adminCalls) =>
            admin'.isAuthorized = JsBool(TRUE)
       /\ TableShown => admin.isAuthorized = JsBool(TRUE)]_vars
====
